---------------------------- MODULE Spec2Model ----------------------------
(***************************************************************************)
(* A model of the OFC multi-account automation:                            *)
(*   - TaskService.filterIncompleteTasks (the eligibility filter),         *)
(*   - withRetry / retryOperation (the retry wrapper),                     *)
(*   - AuthService.login, TaskProcessor.processAllWallets and              *)
(*     TaskService.processAllTasks (the per-wallet pipeline).              *)
(*                                                                         *)
(* Conventions.  A JavaScript value that may be null/undefined is a        *)
(* sequence of length 0 (absent) or 1 (present).  Timestamps are integer   *)
(* ticks of local time; a local calendar day is DayLen consecutive ticks.  *)
(***************************************************************************)
EXTENDS Integers, Sequences, FiniteSets, TLC

VARIABLES
  \* ---- filterIncompleteTasks, applied to one catalog ----
  fActivities,   \* the activities handed to the filter
  fNow,          \* new Date() at the time of the call
  fResult,       \* the filter's return value
  fPc            \* "idle" | "ready" | "done"

fvars == <<fActivities, fNow, fResult, fPc>>

VARIABLES
  \* ---- one invocation of the retry wrapper ----
  rImpl,         \* "withRetry" (utils/retry) | "retryOperation" (bot.js)
  rMaxRetries,   \* options.maxRetries / retries
  rRetryDelay,   \* options.retryDelay / this.retryDelay
  rBackoff,      \* options.exponentialBackoff
  rAttempt,      \* the loop variable (attempt / i)
  rOutcomes,     \* outcome of every invocation of operation so far, in order
  rSleeps,       \* the delays slept so far, in order
  rPc,           \* "idle" | "loop" | "returned" | "thrown"
  rValue,        \* what was returned: <<n>>, the result of invocation n; <<>> is undefined
  rError         \* what was thrown: <<n>>, the error of invocation n; <<>> is null

rvars == <<rImpl, rMaxRetries, rRetryDelay, rBackoff, rAttempt, rOutcomes, rSleeps,
           rPc, rValue, rError>>

VARIABLES
  \* ---- one pass of TaskProcessor.processAllWallets ----
  run,             \* number of the scheduled run in progress, from 1
  wCount,          \* number of configured wallets (this.wallets.length)
  wIdx,            \* position of the for-of loop over this.wallets (1-based)
  pc,              \* where the pass is suspended (the pending await)
  authenticated,   \* Wallet.authenticated, per wallet
  apiToken,        \* ApiClient.token of the wallet's client, per wallet
  apiIdToken,      \* ApiClient.privyIdToken of the wallet's client, per wallet
  lIdToken,        \* login()'s local privyIdToken
  authError,       \* the error login() threw: <<message>>
  cachedTasks,     \* TaskService.cachedTasks: <<>> is null, <<list>> a cached list
  tasks,           \* processAllTasks' tasks / sortedTasks (the same array)
  tIdx,            \* position of the for-of loop over sortedTasks (1-based)
  completedTasks,  \* processAllTasks' completedTasks
  failedTasks,     \* processAllTasks' failedTasks
  summary,         \* what processAllTasks returned: <<summary>>
  results,         \* processAllWallets' results
  log              \* every request sent, sleep awaited and local step taken, in order

pvars == <<run, wCount, wIdx, pc, authenticated, apiToken, apiIdToken, lIdToken, authError,
           cachedTasks, tasks, tIdx, completedTasks, failedTasks, summary, results, log>>

VARIABLES
  \* ---- the configuration files and the proxy utilities ----
  xImpl,          \* "initializeWallets" (TaskProcessor) | "readConfigFiles" (bot.js)
  xPrivateKeys,   \* number of private keys read from pk.txt
  xProxyFile,     \* the lines of proxy.txt, in file order
  xWallets,       \* per wallet, its proxyConfig: <<>> is null, <<entry>> an entry
  xCall,          \* the call of a proxy utility made: <<[fn, config, outcome]>>
  xPc             \* "idle" | "load" | "loaded" | "call" | "called"

xvars == <<xImpl, xPrivateKeys, xProxyFile, xWallets, xCall, xPc>>

VARIABLES
  \* ---- one network request of the program ----
  qSite,          \* the place that sends it: [program, request]; "none" when idle
  qServed         \* the length of the log when withRetry was called for the request
                  \* now pending: its outcome is for that point of the pass

qvars == <<qSite, qServed>>

VARIABLES
  \* ---- one log record passing through maskSensitiveData ----
  mInfo,          \* the argument, as it was when it was passed
  mResult,        \* what was returned: <<value>>
  mArgument,      \* the object that was passed in, as the caller sees it now
  mPc             \* "idle" | "call" | "called"

mvars == <<mInfo, mResult, mArgument, mPc>>

VARIABLES
  \* ---- TaskScheduler and the process that hosts it ----
  running,            \* this.running
  countdownInterval,  \* this.countdownInterval: "null" | "active" | "cleared"
  timeouts,           \* number of armed setTimeout callbacks of startCountdown
  inFlight,           \* executions of the processor in flight, by who began them
  events,             \* history: the calls made and the events emitted, in order
  exitArmed,          \* a signal handler has armed process.exit
  alive,              \* the process has not exited
  intervalHours,      \* this.intervalHours
  armed,              \* history: the delay (ms) of every setTimeout of startCountdown
  exitCode            \* <<code>> once process.exit(code) has run

svars == <<running, countdownInterval, timeouts, inFlight, events, exitArmed, alive,
           intervalHours, armed, exitCode>>

VARIABLES
  \* ---- main of src/src/index.js ----
  argHelp,            \* options.help
  argRunOnce,         \* options.runOnce
  privateKeys,        \* config.privateKeys.length
  mainPc              \* "idle" | "start" | "pass" | "scheduled" | "returned" | "exited"

avars == <<argHelp, argRunOnce, privateKeys, mainPc>>

VARIABLES
  \* ---- the two AuthService.login implementations, run on the same answers ----
  eResponses,         \* what the server and the signer answer to one login
  eLogins             \* <<>> until both implementations have run, then <<the two runs>>

evars == <<eResponses, eLogins>>

uvars == <<xvars, qvars, mvars, svars, avars, evars>>

vars == <<fActivities, fNow, fResult, fPc,
          rImpl, rMaxRetries, rRetryDelay, rBackoff, rAttempt, rOutcomes, rSleeps,
          rPc, rValue, rError,
          run, wCount, wIdx, pc, authenticated, apiToken, apiIdToken, lIdToken, authError,
          cachedTasks, tasks, tIdx, completedTasks, failedTasks, summary, results, log,
          xImpl, xPrivateKeys, xProxyFile, xWallets, xCall, xPc,
          qSite, qServed, mInfo, mResult, mArgument, mPc,
          running, countdownInterval, timeouts, inFlight, events, exitArmed, alive,
          intervalHours, armed, exitCode,
          argHelp, argRunOnce, privateKeys, mainPc,
          eResponses, eLogins>>

-----------------------------------------------------------------------------
(* Bounds *)

MaxRecords == 2
MaxTime == 3
DayLen == 2
MaxRetriesBound == 4
MaxDelay == 2
MaxSortTasks == 4
MaxTasks == 3
MaxWallets == 2
MaxWalletTasks == 1
MaxCalls == 2
MaxServiceTasks == 1
MaxKeys == 3
MaxRuns == 2
MaxSecretLen == 5
MaxSchedulerEvents == 6
MaxPassRetries == 2
MaxProxyLines == 3

-----------------------------------------------------------------------------
(* Generic helpers *)

Range(s) == {s[i] : i \in DOMAIN s}

SetMax(S) == CHOOSE x \in S : \A y \in S : y <= x

\* Sequences over S of length lo..hi
SeqsFromTo(S, lo, hi) == UNION {[1..n -> S] : n \in lo..hi}

-----------------------------------------------------------------------------
(* filterIncompleteTasks: src/src/services/task-service.js 263-303,        *)
(* identical in src/bot.js 587-627                                         *)

\* new Date(y, m, d).getTime(): the local midnight that starts the day of t
DayStart(t) == (t \div DayLen) * DayLen

RECURSIVE RecordsFrom(_, _)
\* The records created at tick t, then those created at t-1, ..., down to 0,
\* each group in the order it has in records.
RecordsFrom(records, t) ==
  IF t < 0 THEN <<>>
  ELSE SelectSeq(records, LAMBDA r : r.createdAt = t) \o RecordsFrom(records, t - 1)

\* [...activity.records].sort((a, b) => new Date(b.createdAt) - new Date(a.createdAt)):
\* a stable sort (ECMAScript 2019), newest first
sortedRecords(records) ==
  IF Len(records) = 0 THEN <<>>
  ELSE RecordsFrom(records, SetMax({records[i].createdAt : i \in DOMAIN records}))

\* activity.recurringPeriod && recurringPeriod.type === "DAY" && recurringPeriod.count === 1
IsDailyRecurring(activity) ==
  /\ Len(activity.recurringPeriod) = 1
  /\ activity.recurringPeriod[1].type = "DAY"
  /\ activity.recurringPeriod[1].count = 1

\* Variant of RecordCompleted that looks at the record's own status only
RecordCompleted_StatusOnly(record) == record.status = "COMPLETED"

\* record.status === "COMPLETED" || record.rewardRecords?.some(r => r.status === "COMPLETED")
RecordCompleted(record) ==
  \/ record.status = "COMPLETED"
  \/ \E j \in DOMAIN record.rewardRecords : record.rewardRecords[j].status = "COMPLETED"

\* Variant of IsIncomplete that tests isHidden after the "no records" test
IsIncomplete_HiddenTestedLate(activity, today) ==
  IF Len(activity.records) = 0 THEN TRUE
  ELSE IF activity.isHidden THEN FALSE
  ELSE IF /\ IsDailyRecurring(activity)
          /\ sortedRecords(activity.records)[1].status = "COMPLETED"
       THEN DayStart(sortedRecords(activity.records)[1].createdAt) < today
  ELSE ~ \E i \in DOMAIN activity.records : RecordCompleted(activity.records[i])

\* The callback of activities.filter(...)
IsIncomplete(activity, today) ==
  IF activity.isHidden THEN FALSE
  ELSE IF Len(activity.records) = 0 THEN TRUE
  ELSE IF /\ IsDailyRecurring(activity)
          /\ sortedRecords(activity.records)[1].status = "COMPLETED"
       THEN DayStart(sortedRecords(activity.records)[1].createdAt) < today
  ELSE ~ \E i \in DOMAIN activity.records : RecordCompleted(activity.records[i])

filterIncompleteTasks(activities, now) ==
  SelectSeq(activities, LAMBDA a : IsIncomplete(a, DayStart(now)))

-----------------------------------------------------------------------------
(* Inputs of the filter *)

Times == 0..MaxTime

Statuses == {"COMPLETED", "PENDING"}

RewardRecordLists == {<<>>, <<[status |-> "COMPLETED"]>>, <<[status |-> "PENDING"]>>}

ActivityRecords == [status : Statuses, createdAt : Times, rewardRecords : RewardRecordLists]

RecurringPeriods ==
  {<<>>, <<[type |-> "DAY", count |-> 1]>>, <<[type |-> "DAY", count |-> 2]>>,
   <<[type |-> "WEEK", count |-> 1]>>}

FilterTypes == {"GM", "QUIZ"}

FilterActivities ==
  [id : {1}, type : FilterTypes, isHidden : BOOLEAN, recurringPeriod : RecurringPeriods,
   records : SeqsFromTo(ActivityRecords, 0, MaxRecords)]

FilterIdle ==
  /\ fActivities = <<>>
  /\ fNow = 0
  /\ fResult = <<>>
  /\ fPc = "idle"

FilterStart ==
  /\ fActivities \in {<<a>> : a \in FilterActivities}
  /\ fNow \in Times
  /\ fResult = <<>>
  /\ fPc = "ready"

\* One call of filterIncompleteTasks(activities) at time fNow
FilterCall ==
  /\ fPc = "ready"
  /\ fResult' = filterIncompleteTasks(fActivities, fNow)
  /\ fPc' = "done"
  /\ UNCHANGED <<fActivities, fNow>>
  /\ UNCHANGED <<rvars, pvars, uvars>>

-----------------------------------------------------------------------------
(* withRetry: src/unnamed/part_000 32-89; retryOperation: src/bot.js 89-115 *)

RECURSIVE Pow2(_)
\* Math.pow(2, attempt)
Pow2(n) == IF n = 0 THEN 1 ELSE 2 * Pow2(n - 1)

\* Variant of IsLastAttempt that is off by one
IsLastAttempt_OffByOne(attempt, maxRetries) == attempt = maxRetries

\* if (attempt === maxRetries - 1)
IsLastAttempt(attempt, maxRetries) == attempt = maxRetries - 1

\* Variant of RetryDelayFor whose backoff grows linearly
RetryDelayFor_Linear(impl, retryDelay, backoff, attempt) ==
  IF impl = "withRetry" /\ backoff THEN retryDelay * (attempt + 1) ELSE retryDelay

\* exponentialBackoff ? retryDelay * Math.pow(2, attempt) : retryDelay
\* (retryOperation always sleeps this.retryDelay)
RetryDelayFor(impl, retryDelay, backoff, attempt) ==
  IF impl = "withRetry" /\ backoff THEN retryDelay * Pow2(attempt) ELSE retryDelay

RetryIdle ==
  /\ rImpl = "withRetry"
  /\ rMaxRetries = 0
  /\ rRetryDelay = 0
  /\ rBackoff = FALSE
  /\ rAttempt = 0
  /\ rOutcomes = <<>>
  /\ rSleeps = <<>>
  /\ rPc = "idle"
  /\ rValue = <<>>
  /\ rError = <<>>

\* The call: the options are destructured and the loop starts at attempt 0
RetryStart ==
  /\ rImpl \in {"withRetry", "retryOperation"}
  /\ rMaxRetries \in 0..MaxRetriesBound
  /\ rRetryDelay \in 1..MaxDelay
  /\ rBackoff \in (IF rImpl = "withRetry" THEN BOOLEAN ELSE {FALSE})
  /\ rAttempt = 0
  /\ rOutcomes = <<>>
  /\ rSleeps = <<>>
  /\ rPc = "loop"
  /\ rValue = <<>>
  /\ rError = <<>>

\* try { return await operation(attempt) }: the invocation resolves
RetryOperationResolves ==
  /\ rPc = "loop"
  /\ rAttempt < rMaxRetries
  /\ rOutcomes' = Append(rOutcomes, "ok")
  /\ rValue' = <<Len(rOutcomes) + 1>>
  /\ rPc' = "returned"
  /\ UNCHANGED <<rImpl, rMaxRetries, rRetryDelay, rBackoff, rAttempt, rSleeps, rError>>
  /\ UNCHANGED <<fvars, pvars, uvars>>

\* catch (error): the invocation rejects; the last attempt rethrows, any other
\* attempt sleeps and goes round the loop
RetryOperationRejects ==
  /\ rPc = "loop"
  /\ rAttempt < rMaxRetries
  /\ rOutcomes' = Append(rOutcomes, "fail")
  /\ IF IsLastAttempt(rAttempt, rMaxRetries)
       THEN /\ rPc' = "thrown"
            /\ rError' = <<Len(rOutcomes) + 1>>
            /\ UNCHANGED <<rAttempt, rSleeps>>
       ELSE /\ rSleeps' = Append(rSleeps, RetryDelayFor(rImpl, rRetryDelay, rBackoff, rAttempt))
            /\ rAttempt' = rAttempt + 1
            /\ UNCHANGED <<rPc, rError>>
  /\ UNCHANGED <<rImpl, rMaxRetries, rRetryDelay, rBackoff, rValue>>
  /\ UNCHANGED <<fvars, pvars, uvars>>

\* The loop condition fails: withRetry reaches "throw lastError" (the error of
\* the last invocation, null when there was none); retryOperation falls off
\* the end of the function and returns undefined
RetryLoopExit ==
  /\ rPc = "loop"
  /\ ~(rAttempt < rMaxRetries)
  /\ IF rImpl = "withRetry"
       THEN /\ rPc' = "thrown"
            /\ rError' = IF Len(rOutcomes) = 0 THEN <<>> ELSE <<Len(rOutcomes)>>
            /\ UNCHANGED rValue
       ELSE /\ rPc' = "returned"
            /\ rValue' = <<>>
            /\ UNCHANGED rError
  /\ UNCHANGED <<rImpl, rMaxRetries, rRetryDelay, rBackoff, rAttempt, rOutcomes, rSleeps>>
  /\ UNCHANGED <<fvars, pvars, uvars>>

-----------------------------------------------------------------------------
(* The log of a pass *)

\* Variant of getHeaders that never attaches the identity token
getHeaders_NoIdentityHeader(token, privyIdToken) ==
  [Authorization |-> IF token # <<>> THEN <<"Bearer", token[1]>> ELSE <<>>,
   privyIdToken |-> <<>>]

\* ApiClient.getHeaders (src/src/services/api-client.js 199-216): the headers that
\* depend on the client's state.  token and privyIdToken are null (<<>>) or hold
\* the token issued to a wallet; Authorization is `Bearer ${token}`, the
\* privy-id-token header is the identity token itself
getHeaders(token, privyIdToken) ==
  [Authorization |-> IF token # <<>> THEN <<"Bearer", token[1]>> ELSE <<>>,
   privyIdToken |-> IF privyIdToken # <<>> THEN privyIdToken ELSE <<>>]

\* Variant of Request in which all the wallets send through the client of the
\* first one
Request_FirstWalletsClient(op, arg, meta, out) ==
  [run |-> run, w |-> wIdx, op |-> op, arg |-> arg, meta |-> meta, out |-> out, rec |-> <<>>,
   auth |-> getHeaders(apiToken[1], apiIdToken[1]).Authorization,
   idAuth |-> getHeaders(apiToken[1], apiIdToken[1]).privyIdToken]

\* A request sent through the wallet's ApiClient: getHeaders() attaches the
\* tokens the client holds at that moment (src/src/services/api-client.js 199-216).
\* out is what came back: "throw" when the request failed on every retry;
\* rec is the payload that came back with it, <<>> when there is none.
Request(op, arg, meta, out) ==
  [run |-> run, w |-> wIdx, op |-> op, arg |-> arg, meta |-> meta, out |-> out, rec |-> <<>>,
   auth |-> getHeaders(apiToken[wIdx], apiIdToken[wIdx]).Authorization,
   idAuth |-> getHeaders(apiToken[wIdx], apiIdToken[wIdx]).privyIdToken]

\* A step that sends nothing: a sleep, a signature, setTokens
LocalStep(op, out) ==
  [run |-> run, w |-> wIdx, op |-> op, arg |-> 0, meta |-> <<>>, out |-> out, rec |-> <<>>,
   auth |-> <<>>, idAuth |-> <<>>]

-----------------------------------------------------------------------------
(* TaskService: src/src/services/task-service.js *)

\* this.skippedTaskTypes (line 174)
skippedTaskTypes == {"FARCASTER_FOLLOW", "REFERRAL", "REFEREE_SIGNUP_BONUS"}

\* priorityOrder (lines 505-511)
priorityOrder ==
  <<"GM", "CHECK_IN", "TWITTER_FOLLOW", "FARCASTER_FOLLOW", "TWEET_RETWEET",
    "EXTERNAL_LINK", "QUIZ", "REFERRAL", "REFEREE_SIGNUP_BONUS">>

\* Array.prototype.indexOf: the 0-based position of x, -1 when x is not in arr
indexOf(arr, x) ==
  IF \E i \in DOMAIN arr : arr[i] = x
    THEN (CHOOSE i \in DOMAIN arr : arr[i] = x /\ \A j \in DOMAIN arr : arr[j] = x => i <= j) - 1
    ELSE -1

RECURSIVE TasksFrom(_, _)
\* The tasks whose priority is k, then those whose priority is k+1, ..., each
\* group in the order it has in list.
TasksFrom(list, k) ==
  IF k > Len(priorityOrder) - 1 THEN <<>>
  ELSE SelectSeq(list, LAMBDA t : indexOf(priorityOrder, t.type) = k) \o TasksFrom(list, k + 1)

RECURSIVE TasksDownFrom(_, _)
TasksDownFrom(list, k) ==
  IF k < -1 THEN <<>>
  ELSE SelectSeq(list, LAMBDA t : indexOf(priorityOrder, t.type) = k) \o TasksDownFrom(list, k - 1)

\* Variant of sortedTasks whose comparator is reversed (priorityB - priorityA)
sortedTasks_Reversed(list) == TasksDownFrom(list, Len(priorityOrder) - 1)

\* tasks.sort((a, b) => priorityOrder.indexOf(a.type) - priorityOrder.indexOf(b.type)):
\* a stable sort (ECMAScript 2019) by ascending indexOf, whose least value is -1
sortedTasks(list) == TasksFrom(list, -1)

\* allIncompleteTasks.filter(task => !this.skippedTaskTypes.includes(task.type))
withoutSkipped(list) == SelectSeq(list, LAMBDA t : t.type \notin skippedTaskTypes)

\* The activity ids that have an entry in config.quizAnswers
QuizIdsWithAnswers == {1}

\* config.quizAnswers[activityId] || []
quizAnswers(activityId) ==
  IF activityId \in QuizIdsWithAnswers THEN <<[questionId |-> "q1", answer |-> activityId]>>
  ELSE <<>>

\* verifyTask's switch: which handlers look a property up in the catalog first
\* (handleTwitterFollow, handleTwitterRetweet, handleExternalLink)
LooksUpProperty(type) == type \in {"TWITTER_FOLLOW", "TWEET_RETWEET", "EXTERNAL_LINK"}

\* Variant of SendsQuizAnswers in which handleQuizTask tests the table entry
\* the wrong way round
SendsQuizAnswers_InvertedTest(task) == task.type = "QUIZ" /\ Len(quizAnswers(task.id)) = 0

\* Variant of SendsQuizAnswers in which handleQuizTask does not test whether
\* the table has an entry
SendsQuizAnswers_AnyQuiz(task) == task.type = "QUIZ"

\* handleQuizTask sends the answers itself when the table has some
SendsQuizAnswers(task) == task.type = "QUIZ" /\ Len(quizAnswers(task.id)) > 0

\* Variant of pointsOf that counts one point per reward record
pointsOf_CountsRecords(record) == Len(record.rewardRecords)

\* result.rewardRecords?.[0]?.appliedRewardQuantity || 0
pointsOf(record) ==
  IF Len(record.rewardRecords) = 0 THEN 0 ELSE record.rewardRecords[1].appliedRewardQuantity

\* Variant of IsCompletedResult that takes any record for a completion
IsCompletedResult_AnyRecord(result) == Len(result) = 1

\* if (result?.status === "COMPLETED"), result being <<>> (null / undefined) or <<record>>
IsCompletedResult(result) == Len(result) = 1 /\ result[1].status = "COMPLETED"

RECURSIVE SumPoints(_)
\* completedTasks.reduce((sum, task) => sum + (task.points || 0), 0)
SumPoints(list) == IF Len(list) = 0 THEN 0 ELSE list[1].points + SumPoints(Tail(list))

\* Variant of Summary that reports an empty task list as an error
Summary_EmptyIsError(w, list, completed, failed) ==
  [walletAddress |-> w, error |-> IF Len(list) = 0 THEN <<"No tasks">> ELSE <<>>,
   totalTasks |-> Len(list),
   completedCount |-> Len(completed), failedCount |-> Len(failed),
   totalPoints |-> SumPoints(completed),
   completedTasks |-> completed, failedTasks |-> failed]

\* The summary object of processAllTasks (lines 560-568; 490-498 when there are no tasks)
Summary(w, list, completed, failed) ==
  [walletAddress |-> w, error |-> <<>>, totalTasks |-> Len(list),
   completedCount |-> Len(completed), failedCount |-> Len(failed),
   totalPoints |-> SumPoints(completed),
   completedTasks |-> completed, failedTasks |-> failed]

\* What a verification request brought back, as the log records it: "throw",
\* "none" (a response without a record) or the record's status
VerifyOut(resp) ==
  IF resp.kind = "throw" THEN "throw"
  ELSE IF Len(resp.record) = 0 THEN "none" ELSE resp.record[1].status

\* Variant of GetAvailableTasks that caches the list without the skipped types
GetAvailableTasks_CachesAutomatedOnly(cache, refresh, includeSkipped, resp) ==
  IF cache # <<>> /\ ~refresh
    THEN [sent |-> FALSE, cache |-> cache,
          ret |-> IF includeSkipped THEN cache[1] ELSE withoutSkipped(cache[1])]
  ELSE IF resp.kind = "ok"
    THEN LET eligible == withoutSkipped(filterIncompleteTasks(resp.activities, MaxTime))
         IN [sent |-> TRUE, cache |-> <<eligible>>, ret |-> eligible]
  ELSE [sent |-> TRUE, cache |-> cache, ret |-> <<>>]

\* Variant of GetAvailableTasks that never answers from the cache
GetAvailableTasks_NeverCached(cache, refresh, includeSkipped, resp) ==
  IF resp.kind = "ok"
    THEN LET eligible == filterIncompleteTasks(resp.activities, MaxTime)
         IN [sent |-> TRUE, cache |-> <<eligible>>,
             ret |-> IF includeSkipped THEN eligible ELSE withoutSkipped(eligible)]
  ELSE [sent |-> TRUE, cache |-> cache, ret |-> <<>>]

\* Variant of GetAvailableTasks that sends the query only when the cache is empty
GetAvailableTasks_IgnoresRefresh(cache, refresh, includeSkipped, resp) ==
  IF cache # <<>>
    THEN [sent |-> FALSE, cache |-> cache,
          ret |-> IF includeSkipped THEN cache[1] ELSE withoutSkipped(cache[1])]
  ELSE IF resp.kind = "ok"
    THEN LET eligible == filterIncompleteTasks(resp.activities, MaxTime)
         IN [sent |-> TRUE, cache |-> <<eligible>>,
             ret |-> IF includeSkipped THEN eligible ELSE withoutSkipped(eligible)]
  ELSE [sent |-> TRUE, cache |-> cache, ret |-> <<>>]

\* getAvailableTasks({ refresh, includeSkipped }) (lines 184-256) on a service
\* whose cache is `cache`, resp being what the server answers if it is asked:
\* whether the query is sent, the cache afterwards and the list returned.
\* An empty array is truthy, so an empty cached list is a cache too.
GetAvailableTasks(cache, refresh, includeSkipped, resp) ==
  IF cache # <<>> /\ ~refresh
    THEN [sent |-> FALSE, cache |-> cache,
          ret |-> IF includeSkipped THEN cache[1] ELSE withoutSkipped(cache[1])]
  ELSE IF resp.kind = "ok"
    THEN LET eligible == filterIncompleteTasks(resp.activities, MaxTime)
         IN [sent |-> TRUE, cache |-> <<eligible>>,
             ret |-> IF includeSkipped THEN eligible ELSE withoutSkipped(eligible)]
  ELSE [sent |-> TRUE, cache |-> cache, ret |-> <<>>]

\* What a call of getAvailableTasks leaves in the log: the catalog query, if
\* it was sent, with the activities the server returned, then the return of
\* the call with its options and the list returned
CallLog(call, refresh, includeSkipped, resp) ==
  (IF call.sent
     THEN <<[Request("CampaignActivitiesPanel", 0, <<>>, resp.kind)
               EXCEPT !.rec = IF resp.kind = "ok" THEN <<resp.activities>> ELSE <<>>]>>
     ELSE <<>>)
  \o <<[LocalStep("getAvailableTasks", "returned")
          EXCEPT !.meta = <<[refresh |-> refresh, includeSkipped |-> includeSkipped]>>,
                 !.rec = <<call.ret>>]>>

\* A call of getAvailableTasks(options) from outside processAllTasks
GetAvailableTasksCall(refresh, includeSkipped, resp) ==
  /\ pc \in {"tasks_fetch", "tasks_done"}
  /\ LET call == GetAvailableTasks(cachedTasks, refresh, includeSkipped, resp)
     IN /\ cachedTasks' = call.cache
        /\ log' = log \o CallLog(call, refresh, includeSkipped, resp)
  /\ UNCHANGED <<run, wCount, wIdx, pc, authenticated, apiToken, apiIdToken, lIdToken, authError,
                 tasks, tIdx, completedTasks, failedTasks, summary, results>>
  /\ UNCHANGED <<fvars, rvars, uvars>>

\* Variant of LoopAdvance in which a task that was not completed ends the loop
LoopAdvance_StopsOnFailure(threw, completed, failed) ==
  IF tIdx = Len(tasks) \/ failed # failedTasks
    THEN /\ summary' = <<Summary(wIdx, tasks, completed, failed)>>
         /\ pc' = "tasks_done"
    ELSE /\ summary' = summary
         /\ pc' = "tasks_loop"

\* The end of one iteration of the for-of loop (lines 520-554): the try/catch
\* is inside the loop body, so the loop goes on to the next task whether or
\* not this one threw; after the last task the summary is built and returned
\* (lines 556-577)
LoopAdvance(threw, completed, failed) ==
  IF tIdx = Len(tasks)
    THEN /\ summary' = <<Summary(wIdx, tasks, completed, failed)>>
         /\ pc' = "tasks_done"
    ELSE /\ summary' = summary
         /\ pc' = "tasks_loop"

\* processAllTasks up to its first loop iteration: getAvailableTasks(), which
\* sends the catalog query unless the service has a cache; then the tasks are
\* sorted (in place, in the array getAvailableTasks returned: a copy made by filter).
\* resp: [kind |-> "throw" | "noActivities" | "ok", activities |-> the server's list]
TasksFetch(resp) ==
  /\ pc = "tasks_fetch"
  /\ LET call == GetAvailableTasks(cachedTasks, FALSE, FALSE, resp)
         list == sortedTasks(call.ret)
     IN /\ log' = log \o CallLog(call, FALSE, FALSE, resp)
        /\ cachedTasks' = call.cache
        /\ tasks' = list
        /\ IF Len(list) = 0
             THEN /\ summary' = <<Summary(wIdx, <<>>, <<>>, <<>>)>>
                  /\ pc' = "tasks_done"
             ELSE /\ summary' = <<>>
                  /\ pc' = "tasks_loop"
  /\ tIdx' = 1
  /\ completedTasks' = <<>>
  /\ failedTasks' = <<>>
  /\ UNCHANGED <<run, wCount, wIdx, authenticated, apiToken, apiIdToken, lIdToken, authError,
                 results>>
  /\ UNCHANGED <<fvars, rvars, uvars>>

\* Variant of IterationLog in which the pacing delay follows the verification
IterationLog_DelayAfter(lookup, request, returned) ==
  lookup \o <<request, returned, LocalStep("sleep2000", "ok")>>

\* What one iteration of the loop leaves in the log (lines 525-527): the
\* 2000 ms delay, then what verifyTask does: the property lookup, the
\* verification request and the return of verifyTask
IterationLog(lookup, request, returned) ==
  <<LocalStep("sleep2000", "ok")>> \o lookup \o <<request, returned>>

\* One iteration of the for-of loop of processAllTasks: the pacing delay, then
\* verifyTask(task.id, task.type), then the classification; after the last
\* iteration the summary is built and returned.
\* resp: [kind |-> "throw" | "response", record |-> <<>> or <<the record>>]
TaskVerify(resp) ==
  /\ pc = "tasks_loop"
  /\ tIdx <= Len(tasks)
  /\ LET task == tasks[tIdx]
         \* extractTaskProperty -> getAvailableTasks({includeSkipped: true}):
         \* answered from the cache when there is one
         \* (always, inside the loop: the list being processed came from a
         \* query that succeeded)
         nothing == [kind |-> "throw", activities |-> <<>>]
         lookup == IF LooksUpProperty(task.type)
                     THEN CallLog(GetAvailableTasks(cachedTasks, FALSE, TRUE, nothing),
                                  FALSE, TRUE, nothing)
                     ELSE <<>>
         meta == IF SendsQuizAnswers(task) THEN <<quizAnswers(task.id)>> ELSE <<>>
         \* handleQuizTask rethrows a failed request; defaultVerifyTask returns null
         threw == resp.kind = "throw" /\ SendsQuizAnswers(task)
         result == IF resp.kind = "throw" THEN <<>> ELSE resp.record
         completed == IF ~threw /\ IsCompletedResult(result)
                        THEN Append(completedTasks,
                                    [title |-> task.id, type |-> task.type,
                                     points |-> pointsOf(result[1])])
                        ELSE completedTasks
         failed == IF ~threw /\ IsCompletedResult(result)
                     THEN failedTasks
                     ELSE Append(failedTasks,
                                 [title |-> task.id, type |-> task.type,
                                  error |-> IF threw THEN <<"network">> ELSE <<>>])
     IN /\ log' = log \o IterationLog(
                        lookup,
                        [Request("VerifyActivity", task.id, meta, VerifyOut(resp))
                           EXCEPT !.rec = result],
                        [LocalStep("verifyTask", IF threw THEN "rejected" ELSE "resolved")
                           EXCEPT !.arg = task.id, !.rec = result])
        /\ completedTasks' = completed
        /\ failedTasks' = failed
        /\ LoopAdvance(threw, completed, failed)
  /\ tIdx' = tIdx + 1
  /\ UNCHANGED <<run, wCount, wIdx, authenticated, apiToken, apiIdToken, lIdToken, authError,
                 cachedTasks, tasks, results>>
  /\ UNCHANGED <<fvars, rvars, uvars>>

-----------------------------------------------------------------------------
(* What the server may answer *)

\* An activity of the campaign as the catalog query returns it; state is
\* "fresh" (no records), "hidden" (isHidden) or "done" (one COMPLETED record)
MkActivity(id, kind) ==
  [id |-> id, type |-> kind.type, isHidden |-> (kind.state = "hidden"),
   recurringPeriod |-> <<>>,
   records |-> IF kind.state = "done"
                 THEN <<[status |-> "COMPLETED", createdAt |-> 0, rewardRecords |-> <<>>]>>
                 ELSE <<>>]

\* The catalog whose i-th activity has id i and kind kinds[i]
MkCatalog(kinds) == [i \in DOMAIN kinds |-> MkActivity(i, kinds[i])]

Fresh(types) == {[type |-> t, state |-> "fresh"] : t \in types}

CatalogResponses(kinds, maxLen) ==
  {[kind |-> "throw", activities |-> <<>>], [kind |-> "noActivities", activities |-> <<>>]}
  \cup {[kind |-> "ok", activities |-> MkCatalog(ks)] : ks \in SeqsFromTo(kinds, 0, maxLen)}

VerifyRecords ==
  {[status |-> "COMPLETED", rewardRecords |-> <<[appliedRewardQuantity |-> 10]>>],
   [status |-> "COMPLETED", rewardRecords |-> <<>>],
   [status |-> "PENDING", rewardRecords |-> <<>>],
   [status |-> "PENDING", rewardRecords |-> <<[appliedRewardQuantity |-> 5]>>]}

VerifyResponses ==
  {[kind |-> "throw", record |-> <<>>], [kind |-> "response", record |-> <<>>]}
  \cup {[kind |-> "response", record |-> <<r>>] : r \in VerifyRecords}

-----------------------------------------------------------------------------
(* AuthService.login: src/unnamed/part_004 66-153, called by                *)
(* TaskProcessor.authenticateWallet: src/src/task-processor.js 82-110       *)

\* The identity of the tokens the server issues to wallet w when it logs in
\* during run r: every login is answered with tokens of its own.  In the
\* first run it is the wallet's number
IssuedToken(w, r) == (r - 1) * MaxWallets + w

\* The answers of the three login requests, by name, and the field login() reads
\* from each: <<>> when the response has no data or the field is absent
\*   "throw"   the request failed on every retry
\*   "noData"  a response without data
\*   "noNonce" / "noToken" / "noLogin"           the field is absent
\*   "emptyNonce" / "emptyToken" / "emptyLogin"  the field is the empty string
\*   "ok"      the field is a non-empty string (for /authenticate: both fields)
\*   "okNoIdentityToken"  /authenticate: token without identity_token
NonceOf(resp) ==
  CASE resp = "ok" -> <<"nonce">> [] resp = "emptyNonce" -> <<"">> [] OTHER -> <<>>

TokenOf(resp) ==
  CASE resp \in {"ok", "okNoIdentityToken"} -> <<"privy-token">>
    [] resp = "emptyToken" -> <<"">>
    [] OTHER -> <<>>

IdentityTokenOf(resp) == IF resp = "ok" THEN <<"identity-token">> ELSE <<>>

UserLoginOf(resp) ==
  CASE resp = "ok" -> <<"deform-token">> [] resp = "emptyLogin" -> <<"">> [] OTHER -> <<>>

\* Variants of the three checks that accept any response that arrived
HasNonce_AnyResponse(resp) == resp # "throw"

HasToken_AnyResponse(resp) == resp # "throw"

HasUserLogin_AnyString(resp) == Len(UserLoginOf(resp)) = 1

\* !nonceResponse.data || !nonceResponse.data.nonce (line 75), negated
HasNonce(resp) == Len(NonceOf(resp)) = 1 /\ NonceOf(resp)[1] # ""

\* !privyResponse.data || !privyResponse.data.token (line 103), negated
HasToken(resp) == Len(TokenOf(resp)) = 1 /\ TokenOf(resp)[1] # ""

\* !deformResponse.data?.data?.userLogin (line 128), negated
HasUserLogin(resp) == Len(UserLoginOf(resp)) = 1 /\ UserLoginOf(resp)[1] # ""

\* Variant of LoginFails that records the error and carries on with the next request
LoginFails_CarriesOn(message) ==
  /\ pc' = "login_deform"
  /\ authError' = <<message>>

\* login() throws: authenticateWallet rethrows and processWalletTasks catches
LoginFails(message) ==
  /\ pc' = "auth_failed"
  /\ authError' = <<message>>

\* authenticateWallet constructs an AuthService, whose constructor builds a new
\* ApiClient without tokens (src/src/services/api-client.js 28-29); then login(),
\* step 1: POST /init
LoginInit(resp) ==
  /\ pc = "login_init"
  /\ log' = Append(log, Request("init", 0, <<>>, resp))
  /\ IF HasNonce(resp)
       THEN pc' = "login_sign" /\ UNCHANGED authError
       ELSE LoginFails(IF resp = "throw" THEN "network"
                       ELSE "Failed to get authentication nonce")
  /\ apiToken' = [apiToken EXCEPT ![wIdx] = <<>>]
  /\ apiIdToken' = [apiIdToken EXCEPT ![wIdx] = <<>>]
  /\ UNCHANGED <<run, wCount, wIdx, authenticated, lIdToken,
                 cachedTasks, tasks, tIdx, completedTasks, failedTasks, summary, results>>
  /\ UNCHANGED <<fvars, rvars, uvars>>

\* Steps 2 and 3: createSiweMessage, wallet.signMessage, then sleep(1000).
\* resp: "ok" or "throw" (signMessage rejects)
LoginSign(resp) ==
  /\ pc = "login_sign"
  /\ IF resp = "ok"
       THEN /\ log' = log \o <<LocalStep("sign", "ok"), LocalStep("sleep1000", "ok")>>
            /\ pc' = "login_authenticate"
            /\ UNCHANGED authError
       ELSE /\ log' = Append(log, LocalStep("sign", "throw"))
            /\ LoginFails("signing failed")
  /\ UNCHANGED <<run, wCount, wIdx, authenticated, apiToken, apiIdToken, lIdToken,
                 cachedTasks, tasks, tIdx, completedTasks, failedTasks, summary, results>>
  /\ UNCHANGED <<fvars, rvars, uvars>>

\* Variant of LoginAuthenticate that stores the identity token in the client
\* as soon as /authenticate answers
LoginAuthenticate_StoresIdTokenEarly(resp) ==
  /\ pc = "login_authenticate"
  /\ IF resp \in {"ok", "okNoIdentityToken"}
       THEN /\ log' = log \o <<Request("authenticate", 0, <<>>, resp), LocalStep("sleep1000", "ok")>>
            /\ lIdToken' = IF resp = "ok" THEN <<IssuedToken(wIdx, run)>> ELSE <<>>
            /\ apiIdToken' = [apiIdToken EXCEPT ![wIdx] =
                                 IF resp = "ok" THEN <<IssuedToken(wIdx, run)>> ELSE <<>>]
            /\ pc' = "login_deform"
            /\ UNCHANGED authError
       ELSE /\ log' = Append(log, Request("authenticate", 0, <<>>, resp))
            /\ pc' = "auth_failed"
            /\ authError' = <<IF resp = "throw" THEN "network"
                              ELSE "Failed to authenticate with Privy">>
            /\ UNCHANGED <<lIdToken, apiIdToken>>
  /\ UNCHANGED <<run, wCount, wIdx, authenticated, apiToken,
                 cachedTasks, tasks, tIdx, completedTasks, failedTasks, summary, results>>
  /\ UNCHANGED <<fvars, rvars, uvars>>

\* Step 4: POST /authenticate, then sleep(1000).  resp: "throw", "noToken"
\* (a response without data.token), "ok" (token and identity_token) or
\* "okNoIdentityToken" (token only)
LoginAuthenticate(resp) ==
  /\ pc = "login_authenticate"
  /\ IF HasToken(resp)
       THEN /\ log' = log \o <<Request("authenticate", 0, <<>>, resp), LocalStep("sleep1000", "ok")>>
            /\ lIdToken' = IF IdentityTokenOf(resp) # <<>> THEN <<IssuedToken(wIdx, run)>> ELSE <<>>
            /\ pc' = "login_deform"
            /\ UNCHANGED authError
       ELSE /\ log' = Append(log, Request("authenticate", 0, <<>>, resp))
            /\ LoginFails(IF resp = "throw" THEN "network"
                          ELSE "Failed to authenticate with Privy")
            /\ UNCHANGED lIdToken
  /\ UNCHANGED <<run, wCount, wIdx, authenticated, apiToken, apiIdToken,
                 cachedTasks, tasks, tIdx, completedTasks, failedTasks, summary, results>>
  /\ UNCHANGED <<fvars, rvars, uvars>>

\* Steps 5 and 6: the UserLogin mutation, then setTokens and return; then
\* authenticateWallet marks the wallet and processWalletTasks creates the
\* TaskService.  resp: "throw", "noLogin" (userLogin absent or empty) or "ok"
LoginUserLogin(resp) ==
  /\ pc = "login_deform"
  /\ IF HasUserLogin(resp)
       THEN /\ log' = log \o <<[Request("UserLogin", 0, <<>>, resp)
                                   EXCEPT !.rec = <<IssuedToken(wIdx, run)>>],
                                 [LocalStep("setTokens", "ok") EXCEPT !.rec = UserLoginOf(resp)]>>
            /\ apiToken' = [apiToken EXCEPT ![wIdx] = <<IssuedToken(wIdx, run)>>]
            /\ apiIdToken' = [apiIdToken EXCEPT ![wIdx] = lIdToken]
            /\ authenticated' = [authenticated EXCEPT ![wIdx] = TRUE]
            /\ cachedTasks' = <<>>
            /\ pc' = "tasks_fetch"
            /\ UNCHANGED authError
       ELSE /\ log' = Append(log, Request("UserLogin", 0, <<>>, resp))
            /\ LoginFails(IF resp = "throw" THEN "network" ELSE "Failed to login to Deform")
            /\ UNCHANGED <<apiToken, apiIdToken, authenticated, cachedTasks>>
  /\ UNCHANGED <<run, wCount, wIdx, lIdToken, tasks, tIdx, completedTasks, failedTasks,
                 summary, results>>
  /\ UNCHANGED <<fvars, rvars, uvars>>

-----------------------------------------------------------------------------
(* TaskProcessor: src/src/task-processor.js *)

\* What processWalletTasks returns when authentication or processing threw
\* (lines 143-153)
FailureResult(w, message) ==
  [wallet |-> w, error |-> <<message>>, success |-> <<FALSE>>, totalTasks |-> 0,
   completedCount |-> 0, failedCount |-> 0, totalPoints |-> 0,
   completedTasks |-> <<>>, failedTasks |-> <<>>]

\* What processWalletTasks returns otherwise: { wallet, ...result } (lines 134-137)
SuccessResult(w, sum) ==
  [wallet |-> w, error |-> sum.error, success |-> <<>>, totalTasks |-> sum.totalTasks,
   completedCount |-> sum.completedCount, failedCount |-> sum.failedCount,
   totalPoints |-> sum.totalPoints,
   completedTasks |-> sum.completedTasks, failedTasks |-> sum.failedTasks]

\* Variant of WalletReturn that puts each result in front of the earlier ones
WalletReturn_PrependsResult ==
  /\ pc \in {"auth_failed", "tasks_done"}
  /\ results' = <<IF pc = "auth_failed" THEN FailureResult(wIdx, authError[1])
                  ELSE SuccessResult(wIdx, summary[1])>> \o results
  /\ IF wIdx < wCount
       THEN /\ log' = Append(log, LocalStep("sleep5000", "ok"))
            /\ wIdx' = wIdx + 1
            /\ pc' = "login_init"
       ELSE /\ pc' = "done"
            /\ UNCHANGED <<log, wIdx>>
  /\ lIdToken' = <<>>
  /\ authError' = <<>>
  /\ cachedTasks' = <<>>
  /\ tasks' = <<>>
  /\ tIdx' = 1
  /\ completedTasks' = <<>>
  /\ failedTasks' = <<>>
  /\ summary' = <<>>
  /\ UNCHANGED <<run, wCount, authenticated, apiToken, apiIdToken>>
  /\ UNCHANGED <<fvars, rvars, uvars>>

\* Variant of WalletReturn in which a wallet that failed ends the pass
WalletReturn_StopsAfterFailure ==
  /\ pc \in {"auth_failed", "tasks_done"}
  /\ results' = Append(results,
                       IF pc = "auth_failed" THEN FailureResult(wIdx, authError[1])
                       ELSE SuccessResult(wIdx, summary[1]))
  /\ IF wIdx < wCount /\ pc # "auth_failed"
       THEN /\ log' = Append(log, LocalStep("sleep5000", "ok"))
            /\ wIdx' = wIdx + 1
            /\ pc' = "login_init"
       ELSE /\ pc' = "done"
            /\ UNCHANGED <<log, wIdx>>
  /\ lIdToken' = <<>>
  /\ authError' = <<>>
  /\ cachedTasks' = <<>>
  /\ tasks' = <<>>
  /\ tIdx' = 1
  /\ completedTasks' = <<>>
  /\ failedTasks' = <<>>
  /\ summary' = <<>>
  /\ UNCHANGED <<run, wCount, authenticated, apiToken, apiIdToken>>
  /\ UNCHANGED <<fvars, rvars, uvars>>

\* processWalletTasks returns; processAllWallets pushes the result, sleeps
\* 5000 ms unless this was the last wallet, and goes on to the next wallet or
\* returns the results (lines 177-200)
WalletReturn ==
  /\ pc \in {"auth_failed", "tasks_done"}
  /\ results' = Append(results,
                       IF pc = "auth_failed" THEN FailureResult(wIdx, authError[1])
                       ELSE SuccessResult(wIdx, summary[1]))
  /\ IF wIdx < wCount
       THEN /\ log' = Append(log, LocalStep("sleep5000", "ok"))
            /\ wIdx' = wIdx + 1
            /\ pc' = "login_init"
       ELSE /\ pc' = "done"
            /\ UNCHANGED <<log, wIdx>>
  /\ lIdToken' = <<>>
  /\ authError' = <<>>
  /\ cachedTasks' = <<>>
  /\ tasks' = <<>>
  /\ tIdx' = 1
  /\ completedTasks' = <<>>
  /\ failedTasks' = <<>>
  /\ summary' = <<>>
  /\ UNCHANGED <<run, wCount, authenticated, apiToken, apiIdToken>>
  /\ UNCHANGED <<fvars, rvars, uvars>>

\* The scheduler's timer fires after the previous run has returned
\* (src/unnamed/part_003 116-125, 161-166): processAllWallets runs again on the
\* same TaskProcessor.  this.wallets is kept (lines 166-168), results is a new
\* array; the clients and services of the previous run are not referenced any
\* more, authenticateWallet and processWalletTasks construct new ones
ProcessorNextRun ==
  /\ pc = "done"
  /\ run < MaxRuns
  /\ run' = run + 1
  /\ wIdx' = 1
  /\ pc' = "login_init"
  /\ results' = <<>>
  /\ UNCHANGED <<wCount, authenticated, apiToken, apiIdToken, lIdToken, authError,
                 cachedTasks, tasks, tIdx, completedTasks, failedTasks, summary, log>>
  /\ UNCHANGED <<fvars, rvars, uvars>>

-----------------------------------------------------------------------------
(* The single-file program: src/bot.js.  One object serves all the wallets;  *)
(* apiToken[w] and apiIdToken[w] are its this.token and this.privyIdToken    *)
(* while wallet w is being processed.                                        *)

\* A request of login(): it carries no token (lines 299-320, 347-366, 377-397)
BotLoginRequest(op, out) ==
  [Request(op, 0, <<>>, out) EXCEPT !.auth = <<>>, !.idAuth = <<>>]

\* The catalog query: Authorization only (lines 417-512)
BotCatalogRequest(out) ==
  [Request("CampaignActivitiesPanel", 0, <<>>, out) EXCEPT !.idAuth = <<>>]

\* The handlers that read the catalog again before verifying (lines 699-721, 857-873)
BotLooksUpProperty(type) ==
  type \in {"TWITTER_FOLLOW", "FARCASTER_FOLLOW", "TWEET_RETWEET", "EXTERNAL_LINK"}

\* What processTasksForWallet returns (lines 946-951)
BotSuccessResult(w, list, completed, failed) ==
  [walletAddress |-> w, error |-> <<>>, totalTasks |-> <<Len(list)>>,
   completedTasks |-> <<completed>>, failedTasks |-> <<failed>>]

\* What the catch of handleDailyTasks pushes (lines 990-993)
BotFailureResult(w, message) ==
  [walletAddress |-> w, error |-> <<message>>, totalTasks |-> <<>>,
   completedTasks |-> <<>>, failedTasks |-> <<>>]

\* handleDailyTasks after readConfigFiles found n wallets (lines 961-969)
BotStart(n) ==
  /\ run = 1
  /\ wCount = n
  /\ wIdx = 1
  /\ pc = "bot_login"
  /\ authenticated = [w \in 1..n |-> FALSE]
  /\ apiToken = [w \in 1..n |-> <<>>]
  /\ apiIdToken = [w \in 1..n |-> <<>>]
  /\ lIdToken = <<>>
  /\ authError = <<>>
  /\ cachedTasks = <<>>
  /\ tasks = <<>>
  /\ tIdx = 1
  /\ completedTasks = <<>>
  /\ failedTasks = <<>>
  /\ summary = <<>>
  /\ results = <<>>
  /\ log = <<>>

\* initializeWalletConfig, then login() (lines 322-415): the nonce request,
\* the signature, /authenticate and UserLogin, each request under
\* retryOperation; the first step that throws ends login.
\* resp: "throwInit" | "throwSign" | "throwAuthenticate" | "throwUserLogin" | "ok"
BotLogin(resp) ==
  /\ pc = "bot_login"
  /\ log' = log \o
       (IF resp = "throwInit" THEN <<BotLoginRequest("init", "throw")>>
        ELSE <<BotLoginRequest("init", "ok")>> \o
        (IF resp = "throwSign" THEN <<LocalStep("sign", "throw")>>
         ELSE <<LocalStep("sign", "ok")>> \o
         (IF resp = "throwAuthenticate" THEN <<BotLoginRequest("authenticate", "throw")>>
          ELSE <<BotLoginRequest("authenticate", "ok")>> \o
          (IF resp = "throwUserLogin" THEN <<BotLoginRequest("UserLogin", "throw")>>
           ELSE <<[BotLoginRequest("UserLogin", "ok")
                     EXCEPT !.rec = <<IssuedToken(wIdx, run)>>]>>))))
  \* this.privyIdToken is assigned as soon as /authenticate answered (line 373),
  \* this.token after UserLogin (line 400)
  /\ apiIdToken' = IF resp \in {"throwUserLogin", "ok"}
                     THEN [apiIdToken EXCEPT ![wIdx] = <<IssuedToken(wIdx, run)>>]
                     ELSE apiIdToken
  /\ apiToken' = IF resp = "ok" THEN [apiToken EXCEPT ![wIdx] = <<IssuedToken(wIdx, run)>>]
                  ELSE apiToken
  /\ IF resp = "ok"
       THEN pc' = "bot_tasks_fetch" /\ UNCHANGED authError
       ELSE /\ pc' = "bot_failed"
            /\ authError' = <<IF resp = "throwSign" THEN "signing failed" ELSE "network">>
  /\ UNCHANGED <<run, wCount, wIdx, authenticated, lIdToken, cachedTasks, tasks, tIdx,
                 completedTasks, failedTasks, summary, results>>
  /\ UNCHANGED <<fvars, rvars, uvars>>

\* processTasksForWallet up to its loop (lines 875-895): getAvailableTasks
\* (lines 417-585) has no cache and rethrows what retryOperation throws; a
\* payload without activities is a TypeError inside the retried operation.
BotTasksFetch(resp) ==
  /\ pc = "bot_tasks_fetch"
  /\ log' = Append(log, [BotCatalogRequest(resp.kind)
                           EXCEPT !.rec = IF resp.kind = "ok" THEN <<resp.activities>> ELSE <<>>])
  /\ IF resp.kind = "ok"
       THEN /\ tasks' = sortedTasks(withoutSkipped(filterIncompleteTasks(resp.activities, MaxTime)))
            /\ pc' = IF Len(tasks') = 0 THEN "bot_tasks_done" ELSE "bot_tasks_loop"
            /\ UNCHANGED authError
       ELSE /\ tasks' = <<>>
            /\ pc' = "bot_failed"
            /\ authError' = <<IF resp.kind = "throw" THEN "network" ELSE "TypeError">>
  /\ tIdx' = 1
  /\ completedTasks' = <<>>
  /\ failedTasks' = <<>>
  /\ UNCHANGED <<run, wCount, wIdx, authenticated, apiToken, apiIdToken, lIdToken,
                 cachedTasks, summary, results>>
  /\ UNCHANGED <<fvars, rvars, uvars>>

\* One iteration of the loop of processTasksForWallet (lines 897-938): the
\* pacing delay, verifyTask, the classification.  Some handlers fetch the
\* catalog again first (look: "ok" | "throw"); every failure of a request
\* rejects and is caught by the try/catch of the iteration.
BotTaskVerify(look, resp) ==
  /\ pc = "bot_tasks_loop"
  /\ tIdx <= Len(tasks)
  /\ LET task == tasks[tIdx]
         looks == BotLooksUpProperty(task.type)
         lookThrew == looks /\ look = "throw"
         threw == lookThrew \/ resp.kind = "throw"
         result == IF threw THEN <<>> ELSE resp.record
         meta == IF SendsQuizAnswers(task) THEN <<quizAnswers(task.id)>> ELSE <<>>
         done == ~threw /\ IsCompletedResult(result)
     IN /\ log' = log \o <<LocalStep("sleep2000", "ok")>>
                      \o (IF looks THEN <<BotCatalogRequest(look)>> ELSE <<>>)
                      \o (IF lookThrew THEN <<>>
                          ELSE <<[Request("VerifyActivity", task.id, meta, VerifyOut(resp))
                                    EXCEPT !.rec = result]>>)
                      \o <<[LocalStep("verifyTask", IF threw THEN "rejected" ELSE "resolved")
                              EXCEPT !.arg = task.id, !.rec = result]>>
        /\ completedTasks' = IF done
                               THEN Append(completedTasks,
                                           [title |-> task.id, type |-> task.type,
                                            points |-> pointsOf(result[1])])
                               ELSE completedTasks
        /\ failedTasks' = IF done THEN failedTasks
                          ELSE Append(failedTasks,
                                      [title |-> task.id, type |-> task.type,
                                       error |-> IF threw THEN <<"network">> ELSE <<>>])
  /\ pc' = IF tIdx = Len(tasks) THEN "bot_tasks_done" ELSE "bot_tasks_loop"
  /\ tIdx' = tIdx + 1
  /\ UNCHANGED <<run, wCount, wIdx, authenticated, apiToken, apiIdToken, lIdToken, authError,
                 cachedTasks, tasks, summary, results>>
  /\ UNCHANGED <<fvars, rvars, uvars>>

\* The loop of handleDailyTasks goes on to the next wallet, on the same
\* object: this.token and this.privyIdToken keep their values
BotNextWallet ==
  /\ IF wIdx < wCount
       THEN /\ wIdx' = wIdx + 1
            /\ pc' = "bot_login"
            /\ apiToken' = [apiToken EXCEPT ![wIdx + 1] = apiToken[wIdx]]
            /\ apiIdToken' = [apiIdToken EXCEPT ![wIdx + 1] = apiIdToken[wIdx]]
       ELSE /\ pc' = "bot_done"
            /\ UNCHANGED <<wIdx, apiToken, apiIdToken>>
  /\ authError' = <<>>
  /\ tasks' = <<>>
  /\ tIdx' = 1
  /\ completedTasks' = <<>>
  /\ failedTasks' = <<>>
  /\ UNCHANGED <<run, wCount, authenticated, lIdToken, cachedTasks, summary>>
  /\ UNCHANGED <<fvars, rvars, uvars>>

\* processTasksForWallet returned: the result is pushed and the pacing delay
\* is awaited, after the last wallet too (lines 980-984)
BotWalletDone ==
  /\ pc = "bot_tasks_done"
  /\ results' = Append(results, BotSuccessResult(wIdx, tasks, completedTasks, failedTasks))
  /\ log' = Append(log, LocalStep("sleep5000", "ok"))
  /\ BotNextWallet

\* login or processTasksForWallet threw: the catch pushes the error and the
\* loop goes on (lines 985-994); the pacing delay is inside the try
BotWalletCatch ==
  /\ pc = "bot_failed"
  /\ results' = Append(results, BotFailureResult(wIdx, authError[1]))
  /\ log' = log
  /\ BotNextWallet

\* AutomationScheduler's runLoop fires again after the previous cycle
\* (src/bot.js 1045-1072): handleDailyTasks runs on the same object, whose
\* this.token and this.privyIdToken still hold what the last login left
BotNextRun ==
  /\ pc = "bot_done"
  /\ run < MaxRuns
  /\ run' = run + 1
  /\ wIdx' = 1
  /\ pc' = "bot_login"
  /\ results' = <<>>
  /\ apiToken' = [apiToken EXCEPT ![1] = apiToken[wCount]]
  /\ apiIdToken' = [apiIdToken EXCEPT ![1] = apiIdToken[wCount]]
  /\ UNCHANGED <<wCount, authenticated, lIdToken, authError,
                 cachedTasks, tasks, tIdx, completedTasks, failedTasks, summary, log>>
  /\ UNCHANGED <<fvars, rvars, uvars>>

-----------------------------------------------------------------------------
(* Proxy configuration: getProxyConfigs (src/src/config/logger.js 207-223), *)
(* TaskProcessor.initializeWallets (src/src/task-processor.js 35-75),       *)
(* readConfigFiles (src/bot.js 242-297), parseProxy and                     *)
(* configureAxiosWithProxy (src/unnamed/part_001, src/unnamed/part_002)     *)

\* JavaScript truthiness of a string that may be absent: undefined and "" are falsy
Truthy(f) == Len(f) = 1 /\ f[1] # ""

\* A line of proxy.txt split at ':' : the number of parts and, for the four-part
\* line h:p:u:w, the parts
FileLine(host, port, username, password) ==
  [parts |-> 4, host |-> host, port |-> port, username |-> username, password |-> password]

MalformedLine == [parts |-> 1, host |-> "", port |-> "", username |-> "", password |-> ""]

\* proxyStr => parts.length === 4 ? {host, port, username, password} : null; line is
\* the identity of the object created for that line
ProxyConfigOfLine(fileLine, line) ==
  IF fileLine.parts = 4
    THEN <<[line |-> line, host |-> <<fileLine.host>>, port |-> <<fileLine.port>>,
            username |-> <<fileLine.username>>, password |-> <<fileLine.password>>]>>
    ELSE <<>>

\* Array.prototype.filter(config => config) on the mapped lines, from line k on
RECURSIVE ConfigsFrom(_, _)
ConfigsFrom(file, k) ==
  IF k > Len(file) THEN <<>> ELSE ProxyConfigOfLine(file[k], k) \o ConfigsFrom(file, k + 1)

getProxyConfigs(file) == ConfigsFrom(file, 1)

\* index % length, 1-based rotation: used only as the mutation of Rem
Rem_ShiftedByOne(index, length) == IF length = 0 THEN <<>> ELSE <<(index + 1) % length>>

\* index % length of JavaScript: NaN (<<>>) when length is 0
Rem(index, length) == IF length = 0 THEN <<>> ELSE <<index % length>>

\* arr[index] of JavaScript, index 0-based: undefined (<<>>) when index is NaN or
\* out of range; `|| null` and the constructor's default leave <<>> as it is
At(arr, index) ==
  IF Len(index) = 1 /\ index[1] + 1 \in DOMAIN arr THEN <<arr[index[1] + 1]>> ELSE <<>>

\* TaskProcessor.initializeWallets: the proxyConfig of the wallet at index
proxyConfigOf(proxyConfigs, keys, index) ==
  IF Len(proxyConfigs) >= keys
    THEN At(proxyConfigs, <<index>>)
    ELSE At(proxyConfigs, Rem(index, Len(proxyConfigs)))

\* readConfigFiles of bot.js: the adjusted proxyConfigs array
botProxyConfigs(proxyConfigsRaw, keys) ==
  IF Len(proxyConfigsRaw) >= keys
    THEN [i \in 1..keys |-> <<proxyConfigsRaw[i]>>]
    ELSE [i \in 1..keys |-> At(proxyConfigsRaw, Rem(i - 1, Len(proxyConfigsRaw)))]

\* The lines a proxy.txt is made of here: with credentials, without, with an
\* empty port, and one that does not have four parts
FileLines ==
  {FileLine("h", "8080", "u", "w"), FileLine("h", "8080", "", ""),
   FileLine("h", "", "u", "w"), MalformedLine}

ProxyIdle ==
  /\ xImpl = "none"
  /\ xPrivateKeys = 0
  /\ xProxyFile = <<>>
  /\ xWallets = <<>>
  /\ xCall = <<>>
  /\ xPc = "idle"

\* initializeWallets throws when there is no private key: the files hold at least one
ProxyStart ==
  /\ xImpl \in {"initializeWallets", "readConfigFiles"}
  /\ xPrivateKeys \in 1..MaxKeys
  /\ xProxyFile \in SeqsFromTo(FileLines, 0, MaxProxyLines)
  /\ xWallets = <<>>
  /\ xCall = <<>>
  /\ xPc = "load"

InitializeWallets ==
  /\ xPc = "load"
  /\ xImpl = "initializeWallets"
  /\ xWallets' = [i \in 1..xPrivateKeys |->
                    proxyConfigOf(getProxyConfigs(xProxyFile), xPrivateKeys, i - 1)]
  /\ xPc' = "loaded"
  /\ UNCHANGED <<xImpl, xPrivateKeys, xProxyFile, xCall>>
  /\ UNCHANGED <<fvars, rvars, pvars, qvars, mvars, svars, avars, evars>>

ReadConfigFiles ==
  /\ xPc = "load"
  /\ xImpl = "readConfigFiles"
  /\ xWallets' = [i \in 1..xPrivateKeys |->
                    At(botProxyConfigs(getProxyConfigs(xProxyFile), xPrivateKeys), <<i - 1>>)[1]]
  /\ xPc' = "loaded"
  /\ UNCHANGED <<xImpl, xPrivateKeys, xProxyFile, xCall>>
  /\ UNCHANGED <<fvars, rvars, pvars, qvars, mvars, svars, avars, evars>>

\* `${auth}${host}:${port}` after "http://": the pieces of the template, in order
ProxyUrl(cfg) ==
  <<"http://">>
    \o (IF Truthy(cfg.username) /\ Truthy(cfg.password)
          THEN <<cfg.username[1], ":", cfg.password[1], "@">> ELSE <<>>)
    \o <<cfg.host[1], ":", cfg.port[1]>>

\* What a call came to: the value returned, or an exception
Gives(value) == [threw |-> FALSE, value |-> value]

Throws == [threw |-> TRUE, value |-> <<>>]

\* Variant of parseProxy whose catch rethrows
parseProxy_Rethrows(proxyConfig, agentThrows) ==
  IF Len(proxyConfig) = 0 \/ ~Truthy(proxyConfig[1].host) \/ ~Truthy(proxyConfig[1].port)
    THEN Gives(<<>>)
  ELSE IF agentThrows THEN Throws
  ELSE Gives(<<[proxyUrl |-> ProxyUrl(proxyConfig[1]), agent |-> ProxyUrl(proxyConfig[1])]>>)

\* parseProxy (src/unnamed/part_001 21-47); proxyConfig is <<>> (null or
\* undefined) or <<config>>; agentThrows: new HttpsProxyAgent(proxyUrl) throws.
\* An agent is identified by the URL it was made for
parseProxy(proxyConfig, agentThrows) ==
  IF Len(proxyConfig) = 0 \/ ~Truthy(proxyConfig[1].host) \/ ~Truthy(proxyConfig[1].port)
    THEN Gives(<<>>)
  ELSE IF agentThrows THEN Gives(<<>>)
  ELSE Gives(<<[proxyUrl |-> ProxyUrl(proxyConfig[1]), agent |-> ProxyUrl(proxyConfig[1])]>>)

\* The axios configuration ApiClient.initialize starts from
\* (src/src/services/api-client.js 39-47): no agents, axios's own proxy handling
BaseAxiosConfig == [proxy |-> "default", httpAgent |-> <<>>, httpsAgent |-> <<>>]

\* configureAxiosWithProxy of src/unnamed/part_001 98-117, built on parseProxy
configureAxiosWithProxyByParse(axiosConfig, proxyConfig, agentThrows) ==
  IF Len(proxyConfig) = 0 THEN Gives(axiosConfig)
  ELSE LET proxy == parseProxy(proxyConfig, agentThrows) IN
    IF proxy.threw THEN Throws
    ELSE IF Len(proxy.value) = 0 THEN Gives(axiosConfig)
    ELSE Gives([axiosConfig EXCEPT !.httpsAgent = <<proxy.value[1].agent>>,
                                      !.httpAgent = <<proxy.value[1].agent>>,
                                      !.proxy = "false"])

\* configureAxiosWithProxy of src/unnamed/part_002 20-52
configureAxiosWithProxy(axiosConfig, proxyConfig, agentThrows) ==
  IF Len(proxyConfig) = 0 \/ ~Truthy(proxyConfig[1].host) \/ ~Truthy(proxyConfig[1].port)
    THEN Gives(axiosConfig)
  ELSE IF agentThrows THEN Gives(axiosConfig)
  ELSE Gives([axiosConfig EXCEPT !.proxy = "false",
                                    !.httpAgent = <<ProxyUrl(proxyConfig[1])>>,
                                    !.httpsAgent = <<ProxyUrl(proxyConfig[1])>>])

\* The values a field of a proxy configuration takes here: absent, empty, set
FieldValues(v) == {<<>>, <<"">>, <<v>>}

\* The arguments the utilities are called with: null, or an object with any
\* of its fields absent or empty
ProxyArguments ==
  {<<>>} \cup {<<c>> : c \in [host : FieldValues("h"), port : FieldValues("8080"),
                              username : FieldValues("u"), password : FieldValues("w")]}

ProxyUtilities == {"parseProxy", "configureAxiosWithProxyByParse", "configureAxiosWithProxy"}

\* A proxy utility is about to be called
UtilityStart ==
  /\ xImpl = "none"
  /\ xPrivateKeys = 0
  /\ xProxyFile = <<>>
  /\ xWallets = <<>>
  /\ xCall = <<>>
  /\ xPc = "call"

\* One call of a proxy utility
ProxyUtilityCall(fn, proxyConfig, agentThrows) ==
  /\ xPc = "call"
  /\ xCall' = <<[fn |-> fn, config |-> proxyConfig,
                 outcome |-> CASE fn = "parseProxy" -> parseProxy(proxyConfig, agentThrows)
                               [] fn = "configureAxiosWithProxyByParse" ->
                                    configureAxiosWithProxyByParse(BaseAxiosConfig, proxyConfig,
                                                                   agentThrows)
                               [] OTHER ->
                                    configureAxiosWithProxy(BaseAxiosConfig, proxyConfig,
                                                            agentThrows)]>>
  /\ xPc' = "called"
  /\ UNCHANGED <<xImpl, xPrivateKeys, xProxyFile, xWallets>>
  /\ UNCHANGED <<fvars, rvars, pvars, qvars, mvars, svars, avars, evars>>

-----------------------------------------------------------------------------
(* The network requests and what each is sent through:                      *)
(* ApiClient.privyRequest / graphqlRequest (src/src/services/api-client.js  *)
(* 225-286) and the requests of src/bot.js                                  *)

Requests ==
  {"init", "authenticate", "UserLogin", "catalog", "defaultVerification", "quizVerification"}

RequestSites == [program : {"ApiClient", "bot.js"}, request : Requests]

\* The wrapper the request of a site is executed under: every request of the
\* modular program goes through privyRequest or graphqlRequest, which return
\* withRetry(...) (lines 241, 278); in bot.js getNonce (300), login (347, 377),
\* getAvailableTasks (419) and defaultVerifyTask (669) call retryOperation,
\* while handleQuizTask awaits this.axiosInstance.post directly (827)
WrapperOf(site) ==
  IF site.program = "ApiClient" THEN "withRetry"
  ELSE IF site.request = "quizVerification" THEN "none"
  ELSE "retryOperation"

RequestIdle == qSite = "none" /\ qServed = 0

\* A request is about to be sent from some site, with a positive configured
\* maximum (MAX_RETRIES, this.maxRetries) and delay; withRetry is called
\* without exponentialBackoff, which defaults to true
RequestStart ==
  /\ qSite \in RequestSites
  /\ qServed = 0
  /\ rImpl = WrapperOf(qSite)
  /\ rMaxRetries \in 1..MaxRetriesBound
  /\ rRetryDelay \in 1..MaxDelay
  /\ rBackoff = (rImpl = "withRetry")
  /\ rAttempt = 0
  /\ rOutcomes = <<>>
  /\ rSleeps = <<>>
  /\ rPc = IF rImpl = "none" THEN "direct" ELSE "loop"
  /\ rValue = <<>>
  /\ rError = <<>>

\* await this.axiosInstance.post(...) outside any wrapper: the one attempt
\* resolves, or rejects and the rejection propagates (src/bot.js 827, 845-853)
DirectPost(outcome) ==
  /\ rPc = "direct"
  /\ rOutcomes' = Append(rOutcomes, outcome)
  /\ IF outcome = "ok"
       THEN rPc' = "returned" /\ rValue' = <<1>> /\ UNCHANGED rError
       ELSE rPc' = "thrown" /\ rError' = <<1>> /\ UNCHANGED rValue
  /\ UNCHANGED <<rImpl, rMaxRetries, rRetryDelay, rBackoff, rAttempt, rSleeps>>
  /\ UNCHANGED <<fvars, pvars, uvars>>

-----------------------------------------------------------------------------
(* maskSensitiveData: src/src/config/logger.js 24-60.  A string is the       *)
(* sequence of its characters.  A value is a string, an object (the sequence  *)
(* of its [key, value] fields in Object.keys order) or anything else.         *)

StringValue(chars) == [kind |-> "string", chars |-> chars, fields |-> <<>>]

ObjectValue(fields) == [kind |-> "object", chars |-> <<>>, fields |-> fields]

\* A value that is neither a string nor an object: a number, a boolean, null
OtherValue == [kind |-> "other", chars |-> <<>>, fields |-> <<>>]

Field(key, value) == [key |-> key, value |-> value]

\* sensitiveFields (lines 30-33)
sensitiveFields ==
  <<<<"p", "r", "i", "v", "a", "t", "e", "K", "e", "y">>,
    <<"p", "a", "s", "s", "w", "o", "r", "d">>,
    <<"t", "o", "k", "e", "n">>,
    <<"s", "e", "c", "r", "e", "t">>,
    <<"s", "i", "g", "n", "a", "t", "u", "r", "e">>,
    <<"a", "u", "t", "h">>,
    <<"a", "u", "t", "h", "o", "r", "i", "z", "a", "t", "i", "o", "n">>,
    <<"p", "r", "i", "v", "y", "-", "i", "d", "-", "t", "o", "k", "e", "n">>,
    <<"p", "r", "i", "v", "y", "I", "d", "T", "o", "k", "e", "n">>,
    <<"p", "r", "i", "v", "y", "T", "o", "k", "e", "n">>>>

\* String.prototype.toLowerCase on the letters that occur in the keys used here
ToLowerChar(c) ==
  CASE c = "A" -> "a" [] c = "I" -> "i" [] c = "K" -> "k" [] c = "T" -> "t" [] OTHER -> c

toLowerCase(str) == [i \in DOMAIN str |-> ToLowerChar(str[i])]

\* String.prototype.includes
includes(str, part) ==
  \E i \in 1..(Len(str) - Len(part) + 1) : SubSeq(str, i, i + Len(part) - 1) = part

\* sensitiveFields.some(field => key.toLowerCase().includes(field.toLowerCase()))
IsSensitiveKey(key) ==
  \E i \in DOMAIN sensitiveFields :
    includes(toLowerCase(key), toLowerCase(sensitiveFields[i]))

\* '********'
Mask == <<"*", "*", "*", "*", "*", "*", "*", "*">>

\* Math.min(4, obj[key].length)
Min(a, b) == IF a <= b THEN a ELSE b

\* Lines 44-47: the masked form of a string
maskString(chars) ==
  LET visibleChars == Min(4, Len(chars)) IN
    IF visibleChars > 0 THEN SubSeq(chars, 1, visibleChars) \o Mask ELSE Mask

\* maskObject (lines 36-56), as the value the object has after the call
RECURSIVE maskObject(_)
maskObject(obj) ==
  IF obj.kind # "object" THEN obj
  ELSE ObjectValue([i \in DOMAIN obj.fields |->
         LET key == obj.fields[i].key
             value == obj.fields[i].value
         IN Field(key,
                  IF IsSensitiveKey(key)
                    THEN IF value.kind = "string" THEN StringValue(maskString(value.chars))
                         ELSE StringValue(Mask)
                    ELSE IF value.kind = "object" THEN maskObject(value)
                    ELSE value)])

\* maskSensitiveData(info): the value returned
maskSensitiveData(info) == IF info.kind # "object" THEN info ELSE maskObject(info)

\* The object the caller passed, after the call.  { ...info } (line 27) copies
\* the top-level fields only, so the assignments of lines 46-51 to a top-level
\* key land in the copy; a nested object is the same object in the copy and in
\* the argument, so maskObject(obj[key]) (line 54) assigns into the argument's.
spreadShares(info) ==
  IF info.kind # "object" THEN info
  ELSE ObjectValue([i \in DOMAIN info.fields |->
         LET key == info.fields[i].key
             value == info.fields[i].value
         IN Field(key,
                  IF ~IsSensitiveKey(key) /\ value.kind = "object"
                    THEN maskObject(value)
                    ELSE value)])

\* The characters secrets are made of here, and the secret of n characters
Alphabet == <<"s", "e", "c", "r", "3", "t", "!", "x">>

SecretOf(n) == SubSeq(Alphabet, 1, n)

\* The leaves of a log record: a string of 0..MaxSecretLen characters, or a
\* value that is not a string
Leaves == {StringValue(SecretOf(n)) : n \in 0..MaxSecretLen} \cup {OtherValue}

\* A log record with a secret at the top level, one in a nested object under
\* a capitalised key and one two levels down, beside a field that is no secret
LogRecord(token, message, authorization, privateKey) ==
  ObjectValue(<<
    Field(<<"t", "o", "k", "e", "n">>, token),
    Field(<<"m", "e", "s", "s", "a", "g", "e">>, message),
    Field(<<"h", "e", "a", "d", "e", "r", "s">>, ObjectValue(<<
      Field(<<"A", "u", "t", "h", "o", "r", "i", "z", "a", "t", "i", "o", "n">>, authorization),
      Field(<<"w", "a", "l", "l", "e", "t">>, ObjectValue(<<
        Field(<<"p", "r", "i", "v", "a", "t", "e", "K", "e", "y">>, privateKey)>>))>>))>>)

\* What the logger is handed: records, and messages that are not objects
LogRecords ==
  {LogRecord(t, m, a, k) : t \in Leaves, m \in {StringValue(SecretOf(2)), OtherValue},
                           a \in Leaves, k \in Leaves}
  \cup {StringValue(SecretOf(3)), OtherValue}

MaskIdle ==
  /\ mInfo = OtherValue
  /\ mResult = <<>>
  /\ mArgument = OtherValue
  /\ mPc = "idle"

MaskStart ==
  /\ mInfo \in LogRecords
  /\ mResult = <<>>
  /\ mArgument = mInfo
  /\ mPc = "call"

\* maskFormat passes one record through maskSensitiveData (lines 65-67)
MaskCall ==
  /\ mPc = "call"
  /\ mResult' = <<maskSensitiveData(mInfo)>>
  /\ mArgument' = spreadShares(mInfo)
  /\ mPc' = "called"
  /\ UNCHANGED mInfo
  /\ UNCHANGED <<fvars, rvars, pvars, xvars, qvars, svars, avars, evars>>

-----------------------------------------------------------------------------
(* TaskScheduler: src/unnamed/part_003, and the signal handlers of main in   *)
(* src/src/index.js 94-105.  Time is abstracted: an armed timeout may fire at *)
(* any later step.                                                            *)

Event(name, by) == [name |-> name, by |-> by]

\* config.INTERVAL_HOURS (src/src/config/logger.js 150-174)
INTERVAL_HOURS == 25

\* The intervals a scheduler is constructed with: the default, or --interval
IntervalChoices == {INTERVAL_HOURS, 1}

MainIdle ==
  /\ argHelp = FALSE
  /\ argRunOnce = FALSE
  /\ privateKeys = 0
  /\ mainPc = "idle"

\* The constructor (lines 22-41), in a process that has installed no exit yet
SchedulerConstructed ==
  /\ running = FALSE
  /\ countdownInterval = "null"
  /\ timeouts = 0
  /\ inFlight = [timer |-> 0, runOnce |-> 0]
  /\ events = <<>>
  /\ exitArmed = FALSE
  /\ alive = TRUE
  /\ armed = <<>>
  /\ exitCode = <<>>

SchedulerIdle == SchedulerConstructed /\ intervalHours = INTERVAL_HOURS

\* Variant of IntervalMs that counts the interval in minutes
IntervalMs_InMinutes == intervalHours * 60 * 1000

\* intervalHours * 60 * 60 * 1000 (lines 49, 122)
IntervalMs == intervalHours * 60 * 60 * 1000

\* The scheduler can still be called or called back
SchedulerActive == alive /\ Len(events) < MaxSchedulerEvents

\* startCountdown (lines 102-131): countdownInterval after the call
IntervalAfterCountdown(delayed) ==
  IF delayed THEN "active"
  ELSE IF countdownInterval = "null" THEN "null" ELSE "cleared"

\* start() (lines 68-81)
SchedulerStart ==
  /\ SchedulerActive
  /\ IF running
       THEN /\ events' = Append(events, Event("startIgnored", "caller"))
            /\ UNCHANGED <<running, countdownInterval, timeouts, armed>>
       ELSE /\ running' = TRUE
            /\ timeouts' = timeouts + 1
            /\ armed' = Append(armed, 0)
            /\ countdownInterval' = IntervalAfterCountdown(FALSE)
            /\ events' = Append(events, Event("start", "caller"))
  /\ UNCHANGED <<inFlight, exitArmed, alive, intervalHours, exitCode>>
  /\ UNCHANGED <<fvars, rvars, pvars, xvars, qvars, mvars, avars, evars>>

\* stop() (lines 86-96): the armed timeout is left armed
SchedulerStop ==
  /\ SchedulerActive
  /\ running' = FALSE
  /\ countdownInterval' = "null"
  /\ events' = Append(events, Event("stop", "caller"))
  /\ UNCHANGED <<timeouts, inFlight, exitArmed, alive, intervalHours, armed, exitCode>>
  /\ UNCHANGED <<fvars, rvars, pvars, xvars, qvars, mvars, avars, evars>>

\* The SIGINT and SIGTERM handlers of main (index.js 95-105): stop(), then
\* process.exit armed for one second later
Signal ==
  /\ SchedulerActive
  /\ running' = FALSE
  /\ countdownInterval' = "null"
  /\ exitArmed' = TRUE
  /\ events' = Append(events, Event("stop", "signal"))
  /\ UNCHANGED <<timeouts, inFlight, alive, intervalHours, armed, exitCode>>
  /\ UNCHANGED <<fvars, rvars, pvars, xvars, qvars, mvars, avars, evars>>

\* The armed process.exit(0) fires (index.js 98, 104)
ProcessExit ==
  /\ SchedulerActive
  /\ exitArmed
  /\ alive' = FALSE
  /\ exitCode' = <<0>>
  /\ events' = Append(events, Event("exit", "signal"))
  /\ UNCHANGED <<running, countdownInterval, timeouts, inFlight, exitArmed, intervalHours,
                 armed>>
  /\ UNCHANGED <<fvars, rvars, pvars, xvars, qvars, mvars, avars, evars>>

\* The timeout armed by startCountdown fires (lines 116-117): the callback
\* calls executeTaskProcessor (lines 161-166) without reading this.running
TimerFires ==
  /\ SchedulerActive
  /\ timeouts > 0
  /\ timeouts' = timeouts - 1
  /\ inFlight' = [inFlight EXCEPT !.timer = @ + 1]
  /\ events' = Append(events, Event("executionStarted", "timer"))
  /\ UNCHANGED <<running, countdownInterval, exitArmed, alive, intervalHours, armed,
                 exitCode>>
  /\ UNCHANGED <<fvars, rvars, pvars, xvars, qvars, mvars, avars, evars>>

\* runOnce() (lines 184-187) up to the call of the processor
RunOnce ==
  /\ SchedulerActive
  /\ inFlight' = [inFlight EXCEPT !.runOnce = @ + 1]
  /\ events' = Append(events, Event("executionStarted", "runOnce"))
  /\ UNCHANGED <<running, countdownInterval, timeouts, exitArmed, alive, intervalHours,
                 armed, exitCode>>
  /\ UNCHANGED <<fvars, rvars, pvars, xvars, qvars, mvars, avars, evars>>

\* Variant of Rearms in which a failed execution ends the schedule
Rearms_OnlyAfterSuccess(by, outcome) ==
  by = "timer" /\ running /\ outcome = "executionCompleted"

\* Lines 117-124 of the timeout callback: executeTaskProcessor has caught the
\* error of a failed pass, so the callback goes on to `if (this.running)`
Rearms(by, outcome) == by = "timer" /\ running

\* The processor settles: the rest of executeTaskProcessor (lines 167-177)
\* and, for the timeout callback, the re-arming of lines 119-124
ExecutionSettles(by, outcome) ==
  /\ SchedulerActive
  /\ inFlight[by] > 0
  /\ inFlight' = [inFlight EXCEPT ![by] = @ - 1]
  /\ events' = Append(events, Event(outcome, by))
  /\ IF Rearms(by, outcome)
       THEN /\ timeouts' = timeouts + 1
            /\ armed' = Append(armed, IntervalMs)
            /\ countdownInterval' = IntervalAfterCountdown(TRUE)
       ELSE UNCHANGED <<timeouts, countdownInterval, armed>>
  /\ UNCHANGED <<running, exitArmed, alive, intervalHours, exitCode>>
  /\ UNCHANGED <<fvars, rvars, pvars, xvars, qvars, mvars, avars, evars>>

\* The callback of startCountdownLogging (lines 138-154)
CountdownTick(expired) ==
  /\ SchedulerActive
  /\ countdownInterval = "active"
  /\ IF ~running \/ expired
       THEN countdownInterval' = "cleared"
       ELSE UNCHANGED countdownInterval
  /\ events' = Append(events, Event("tick", "interval"))
  /\ UNCHANGED <<running, timeouts, inFlight, exitArmed, alive, intervalHours, armed,
                 exitCode>>
  /\ UNCHANGED <<fvars, rvars, pvars, xvars, qvars, mvars, avars, evars>>

-----------------------------------------------------------------------------
(* main: src/src/index.js 63-118, over the scheduler above.  A campaign pass  *)
(* is abstracted to whether processAllWallets returns or throws.              *)

\* processAllWallets throws exactly when initializeWallets does
\* (task-processor.js 43-45, 68-74, 166-168, 201-207): with no private key.
\* With wallets, every wallet's error is caught and recorded (184-194).
ProcessAllWalletsThrows == privateKeys = 0

\* What executeTaskProcessor emits when the pass settles (part_003 165-177)
PassOutcome == IF ProcessAllWalletsThrows THEN "executionFailed" ELSE "executionCompleted"

\* parseArgs (lines 23-41) has run; nothing else has
MainStart ==
  /\ argHelp \in BOOLEAN
  /\ argRunOnce \in BOOLEAN
  /\ privateKeys \in 0..MaxKeys
  /\ intervalHours \in IntervalChoices
  /\ mainPc = "start"
  /\ SchedulerConstructed

\* Lines 67-71: help is tested first
MainShowHelp ==
  /\ mainPc = "start"
  /\ argHelp
  /\ mainPc' = "returned"
  /\ events' = Append(events, Event("help", "main"))
  /\ UNCHANGED <<argHelp, argRunOnce, privateKeys>>
  /\ UNCHANGED <<running, countdownInterval, timeouts, inFlight, exitArmed, alive,
                 intervalHours, armed, exitCode>>
  /\ UNCHANGED <<fvars, rvars, pvars, xvars, qvars, mvars, evars>>

\* Lines 80-82: run-once mode calls processAllWallets
MainRunOncePass ==
  /\ mainPc = "start"
  /\ ~argHelp /\ argRunOnce
  /\ mainPc' = "pass"
  /\ events' = Append(events, Event("passStarted", "main"))
  /\ UNCHANGED <<argHelp, argRunOnce, privateKeys>>
  /\ UNCHANGED <<running, countdownInterval, timeouts, inFlight, exitArmed, alive,
                 intervalHours, armed, exitCode>>
  /\ UNCHANGED <<fvars, rvars, pvars, xvars, qvars, mvars, evars>>

\* Lines 82-85 when the pass returns; lines 111-116 when it throws
MainPassSettles ==
  /\ mainPc = "pass"
  /\ IF ProcessAllWalletsThrows
       THEN /\ mainPc' = "exited"
            /\ alive' = FALSE
            /\ exitCode' = <<1>>
            /\ events' = Append(events, Event("passThrew", "main"))
       ELSE /\ mainPc' = "returned"
            /\ events' = Append(events, Event("passReturned", "main"))
            /\ UNCHANGED <<alive, exitCode>>
  /\ UNCHANGED <<argHelp, argRunOnce, privateKeys>>
  /\ UNCHANGED <<running, countdownInterval, timeouts, inFlight, exitArmed, intervalHours,
                 armed>>
  /\ UNCHANGED <<fvars, rvars, pvars, xvars, qvars, mvars, evars>>

\* Lines 88-105: the scheduler is created and the signal handlers installed
MainCreateScheduler ==
  /\ mainPc = "start"
  /\ ~argHelp /\ ~argRunOnce
  /\ mainPc' = "scheduled"
  /\ events' = Append(events, Event("schedulerCreated", "main"))
  /\ UNCHANGED <<argHelp, argRunOnce, privateKeys>>
  /\ UNCHANGED <<running, countdownInterval, timeouts, inFlight, exitArmed, alive,
                 intervalHours, armed, exitCode>>
  /\ UNCHANGED <<fvars, rvars, pvars, xvars, qvars, mvars, evars>>

-----------------------------------------------------------------------------
(* AutomationScheduler: src/bot.js 1025-1088, on the same variables.  It has  *)
(* no running flag and no stop; mainPc = "bot" marks the process as bot.js.   *)

AutomationConstructed ==
  /\ SchedulerConstructed
  /\ intervalHours = INTERVAL_HOURS
  /\ argHelp = FALSE /\ argRunOnce = FALSE /\ privateKeys = 0
  /\ mainPc = "bot"

\* start() (lines 1044-1087) up to the first await: runLoop is called at once
AutomationStart ==
  /\ SchedulerActive
  /\ mainPc = "bot"
  /\ events = <<>>
  /\ inFlight' = [inFlight EXCEPT !.timer = @ + 1]
  /\ events' = <<Event("start", "caller"), Event("executionStarted", "runLoop")>>
  /\ UNCHANGED <<running, countdownInterval, timeouts, exitArmed, alive, intervalHours,
                 armed, exitCode>>
  /\ UNCHANGED <<fvars, rvars, pvars, xvars, qvars, mvars, avars, evars>>

\* handleDailyTasks settles: lines 1050-1072 when it returned, the catch
\* block (1074-1082) when it threw; both arm the next runLoop
AutomationPassSettles(outcome) ==
  /\ SchedulerActive
  /\ mainPc = "bot"
  /\ inFlight.timer > 0
  /\ inFlight' = [inFlight EXCEPT !.timer = @ - 1]
  /\ events' = Append(events, Event(outcome, "runLoop"))
  /\ timeouts' = timeouts + 1
  /\ armed' = Append(armed, IntervalMs)
  /\ countdownInterval' = IF outcome = "executionCompleted" THEN "active"
                          ELSE countdownInterval
  /\ UNCHANGED <<running, exitArmed, alive, intervalHours, exitCode>>
  /\ UNCHANGED <<fvars, rvars, pvars, xvars, qvars, mvars, avars, evars>>

\* The timeout of line 1072 or 1081 fires: runLoop starts the next cycle
AutomationTimerFires ==
  /\ SchedulerActive
  /\ mainPc = "bot"
  /\ timeouts > 0
  /\ timeouts' = timeouts - 1
  /\ inFlight' = [inFlight EXCEPT !.timer = @ + 1]
  /\ events' = Append(events, Event("executionStarted", "runLoop"))
  /\ UNCHANGED <<running, countdownInterval, exitArmed, alive, intervalHours, armed,
                 exitCode>>
  /\ UNCHANGED <<fvars, rvars, pvars, xvars, qvars, mvars, avars, evars>>

\* The countdown callback (lines 1058-1069)
AutomationTick(expired) ==
  /\ SchedulerActive
  /\ mainPc = "bot"
  /\ countdownInterval = "active"
  /\ IF expired THEN countdownInterval' = "cleared" ELSE UNCHANGED countdownInterval
  /\ events' = Append(events, Event("tick", "interval"))
  /\ UNCHANGED <<running, timeouts, inFlight, exitArmed, alive, intervalHours, armed,
                 exitCode>>
  /\ UNCHANGED <<fvars, rvars, pvars, xvars, qvars, mvars, avars, evars>>

-----------------------------------------------------------------------------
(* A pass of processAllWallets with the retries of each request played out:  *)
(* every request of the pass is awaited through privyRequest or               *)
(* graphqlRequest, that is through withRetry (api-client.js 241, 278).        *)

\* The positions of the pass at which a request is awaited
RequestPcs == {"login_init", "login_authenticate", "login_deform", "tasks_fetch", "tasks_loop"}

\* The first call of withRetry of the pass, with the configured MAX_RETRIES
\* (0 included: withRetry then throws without an attempt, lines 43 and 88)
PassRetryStart ==
  /\ rImpl = "withRetry"
  /\ rMaxRetries \in 0..MaxPassRetries
  /\ rRetryDelay = 1
  /\ rBackoff = TRUE
  /\ rAttempt = 0
  /\ rOutcomes = <<>>
  /\ rSleeps = <<>>
  /\ rPc = "loop"
  /\ rValue = <<>>
  /\ rError = <<>>
  /\ qSite = "none"
  /\ qServed = 0

\* Variant of OutcomeReady in which a rejection is never delivered
OutcomeReady_OnlyReturned == rPc = "returned" /\ qServed = Len(log)

\* The await of the pending request is over: withRetry has returned or thrown
OutcomeReady == rPc \in {"returned", "thrown"} /\ qServed = Len(log)

\* The pass reaches its next request and calls withRetry for it
CallWithRetry ==
  /\ pc \in RequestPcs
  /\ rPc # "loop"
  /\ qServed # Len(log)
  /\ qServed' = Len(log)
  /\ rAttempt' = 0
  /\ rOutcomes' = <<>>
  /\ rSleeps' = <<>>
  /\ rPc' = "loop"
  /\ rValue' = <<>>
  /\ rError' = <<>>
  /\ UNCHANGED <<rImpl, rMaxRetries, rRetryDelay, rBackoff, qSite>>
  /\ UNCHANGED <<fvars, pvars, xvars, mvars, svars, avars, evars>>

\* The answer a request step is given agrees with how withRetry ended
Delivers(threw) == OutcomeReady /\ (threw <=> rPc = "thrown")

-----------------------------------------------------------------------------
(* The two AuthService.login: src/unnamed/part_004 66-153 and the copy in     *)
(* src/src/index.js 180-226, each run to its end on the same answers.  A run  *)
(* is the requests it sent, whether it resolved, and the token it installed.  *)

\* What one login can be answered.  "noData": a response whose data is missing
\* (for UserLogin: whose data.data is null)
LoginResponses ==
  [init : {"throw", "noData", "noNonce", "emptyNonce", "ok"},
   sign : {"ok", "throw"},
   authenticate : {"throw", "noData", "noToken", "emptyToken", "ok", "okNoIdentityToken"},
   userLogin : {"throw", "noData", "noLogin", "emptyLogin", "ok"}]

NoResponses == [init |-> "none", sign |-> "none", authenticate |-> "none", userLogin |-> "none"]

Rejected(requests) == [requests |-> requests, resolved |-> FALSE, deformToken |-> <<>>]

Resolved(requests, deformToken) ==
  [requests |-> requests, resolved |-> TRUE, deformToken |-> deformToken]

\* part_004 66-153: the checks of lines 75, 103 and 128 end the login
login_part_004(r) ==
  IF ~HasNonce(r.init) THEN Rejected(<<"init">>)
  ELSE IF r.sign = "throw" THEN Rejected(<<"init">>)
  ELSE IF ~HasToken(r.authenticate) THEN Rejected(<<"init", "authenticate">>)
  ELSE IF ~HasUserLogin(r.userLogin) THEN Rejected(<<"init", "authenticate", "UserLogin">>)
  ELSE Resolved(<<"init", "authenticate", "UserLogin">>, UserLoginOf(r.userLogin))

\* response.data.nonce, privyResponse.data.token and
\* deformResponse.data.data.userLogin (index.js 172, 198, 205) throw a TypeError
\* when the object they read from is missing, and on nothing else
ReadThrows(resp) == resp \in {"throw", "noData"}

\* index.js 180-226: no check of what was read; an undefined or empty nonce is
\* signed, an undefined or empty token is sent, and setTokens (line 210) is
\* reached with whatever userLogin was
login_index(r) ==
  IF ReadThrows(r.init) THEN Rejected(<<"init">>)
  ELSE IF r.sign = "throw" THEN Rejected(<<"init">>)
  ELSE IF ReadThrows(r.authenticate) THEN Rejected(<<"init", "authenticate">>)
  ELSE IF ReadThrows(r.userLogin) THEN Rejected(<<"init", "authenticate", "UserLogin">>)
  ELSE Resolved(<<"init", "authenticate", "UserLogin">>, UserLoginOf(r.userLogin))

LoginPairIdle ==
  /\ eResponses = NoResponses
  /\ eLogins = <<>>

LoginPairStart ==
  /\ eResponses \in LoginResponses
  /\ eLogins = <<>>

\* Both implementations log the same wallet in, against the same answers
LoginBoth ==
  /\ eResponses \in LoginResponses
  /\ eLogins = <<>>
  /\ eLogins' = <<[checked |-> login_part_004(eResponses),
                   unchecked |-> login_index(eResponses)]>>
  /\ UNCHANGED eResponses
  /\ UNCHANGED <<fvars, rvars, pvars, xvars, qvars, mvars, svars, avars>>

-----------------------------------------------------------------------------
(* Specifications *)

PipelineIdle ==
  /\ run = 1
  /\ wCount = 0
  /\ wIdx = 1
  /\ pc = "idle"
  /\ authenticated = <<>>
  /\ apiToken = <<>>
  /\ apiIdToken = <<>>
  /\ lIdToken = <<>>
  /\ authError = <<>>
  /\ cachedTasks = <<>>
  /\ tasks = <<>>
  /\ tIdx = 1
  /\ completedTasks = <<>>
  /\ failedTasks = <<>>
  /\ summary = <<>>
  /\ results = <<>>
  /\ log = <<>>

UtilIdle == ProxyIdle /\ RequestIdle /\ MaskIdle /\ LoginPairIdle /\ SchedulerIdle /\ MainIdle

\* A pass over n freshly constructed wallets (Wallet's constructor: not authenticated)
WalletsStart(n) ==
  /\ run = 1
  /\ wCount = n
  /\ wIdx = 1
  /\ pc = "login_init"
  /\ authenticated = [w \in 1..n |-> FALSE]
  /\ apiToken = [w \in 1..n |-> <<>>]
  /\ apiIdToken = [w \in 1..n |-> <<>>]
  /\ lIdToken = <<>>
  /\ authError = <<>>
  /\ cachedTasks = <<>>
  /\ tasks = <<>>
  /\ tIdx = 1
  /\ completedTasks = <<>>
  /\ failedTasks = <<>>
  /\ summary = <<>>
  /\ results = <<>>
  /\ log = <<>>

\* A TaskService just constructed for one authenticated wallet
TaskServiceStart ==
  /\ run = 1
  /\ wCount = 1
  /\ wIdx = 1
  /\ pc = "tasks_fetch"
  /\ authenticated = [w \in 1..1 |-> TRUE]
  /\ apiToken = [w \in 1..1 |-> <<w>>]
  /\ apiIdToken = [w \in 1..1 |-> <<w>>]
  /\ lIdToken = <<>>
  /\ authError = <<>>
  /\ cachedTasks = <<>>
  /\ tasks = <<>>
  /\ tIdx = 1
  /\ completedTasks = <<>>
  /\ failedTasks = <<>>
  /\ summary = <<>>
  /\ results = <<>>
  /\ log = <<>>

\* ---- the eligibility filter on one activity ----
FilterInit == FilterStart /\ RetryIdle /\ PipelineIdle /\ UtilIdle

FilterNext == FilterCall

SpecFilter == FilterInit /\ [][FilterNext]_vars

\* ---- one invocation of the retry wrapper ----
RetryInit == RetryStart /\ FilterIdle /\ PipelineIdle /\ UtilIdle

RetryNext ==
  \/ RetryOperationResolves
  \/ RetryOperationRejects
  \/ RetryLoopExit

SpecRetry == RetryInit /\ [][RetryNext]_vars

\* ---- processAllTasks on catalogs of up to MaxSortTasks tasks, with a server
\*      that answers every verification with a record ----
OrderTypes == {"GM", "CHECK_IN", "TWEET_RETWEET", "QUIZ", "FARCASTER_FOLLOW", "OTHER"}

OrderVerifyResponses ==
  {[kind |-> "response", record |-> <<r>>] : r \in
     {[status |-> "COMPLETED", rewardRecords |-> <<[appliedRewardQuantity |-> 10]>>],
      [status |-> "PENDING", rewardRecords |-> <<>>]}}

OrderInit == TaskServiceStart /\ FilterIdle /\ RetryIdle /\ UtilIdle

OrderNext ==
  \/ pc = "tasks_fetch" /\ \E resp \in CatalogResponses(Fresh(OrderTypes), MaxSortTasks) :
                              TasksFetch(resp)
  \/ \E resp \in OrderVerifyResponses : TaskVerify(resp)

SpecOrder == OrderInit /\ [][OrderNext]_vars

\* ---- processAllTasks on catalogs of up to MaxTasks activities, with every
\*      answer the server and the network can give ----
TaskKinds ==
  Fresh({"GM", "CHECK_IN", "QUIZ", "TWEET_RETWEET", "REFERRAL"})
  \cup {[type |-> "GM", state |-> "hidden"], [type |-> "GM", state |-> "done"]}

TasksInit == TaskServiceStart /\ FilterIdle /\ RetryIdle /\ UtilIdle

TasksNext ==
  \/ pc = "tasks_fetch" /\ \E resp \in CatalogResponses(TaskKinds, MaxTasks) :
                              TasksFetch(resp)
  \/ \E resp \in VerifyResponses : TaskVerify(resp)

SpecTasks == TasksInit /\ [][TasksNext]_vars

\* ---- one pass of processAllWallets ----
WalletKinds == Fresh({"GM", "QUIZ"})

WalletVerifyResponses ==
  {[kind |-> "throw", record |-> <<>>],
   [kind |-> "response",
    record |-> <<[status |-> "COMPLETED", rewardRecords |-> <<[appliedRewardQuantity |-> 10]>>]>>]}

WalletsInit == (\E n \in 1..MaxWallets : WalletsStart(n)) /\ FilterIdle /\ RetryIdle /\ UtilIdle

WalletsNext ==
  \/ \E resp \in {"throw", "noNonce", "ok"} : LoginInit(resp)
  \/ \E resp \in {"throw", "ok"} : LoginSign(resp)
  \/ \E resp \in {"throw", "noToken", "ok", "okNoIdentityToken"} : LoginAuthenticate(resp)
  \/ \E resp \in {"throw", "noLogin", "ok"} : LoginUserLogin(resp)
  \/ pc = "tasks_fetch" /\ \E resp \in CatalogResponses(WalletKinds, MaxWalletTasks) :
                              TasksFetch(resp)
  \/ \E resp \in WalletVerifyResponses : TaskVerify(resp)
  \/ WalletReturn

SpecWallets == WalletsInit /\ [][WalletsNext]_vars

\* ---- one TaskService: calls of getAvailableTasks with any options, before
\*      and after processAllTasks ----
ServiceKinds == Fresh({"TWEET_RETWEET", "REFERRAL"}) \cup {[type |-> "GM", state |-> "hidden"]}

ServiceVerifyResponses ==
  {[kind |-> "response",
    record |-> <<[status |-> "COMPLETED", rewardRecords |-> <<[appliedRewardQuantity |-> 10]>>]>>]}

ServiceInit == TaskServiceStart /\ FilterIdle /\ RetryIdle /\ UtilIdle

\* What the server may answer to a call with this refresh option: nothing is
\* asked when the call is answered from the cache
ServiceAnswers(refresh) ==
  IF cachedTasks # <<>> /\ ~refresh
    THEN {[kind |-> "throw", activities |-> <<>>]}
    ELSE CatalogResponses(ServiceKinds, MaxServiceTasks)

ServiceNext ==
  \/ /\ Len(SelectSeq(log, LAMBDA e : e.op = "getAvailableTasks")) < MaxCalls
     /\ \E refresh \in BOOLEAN : \E includeSkipped \in BOOLEAN :
          \E resp \in ServiceAnswers(refresh) :
            GetAvailableTasksCall(refresh, includeSkipped, resp)
  \/ pc = "tasks_fetch" /\ \E resp \in ServiceAnswers(FALSE) : TasksFetch(resp)
  \/ \E resp \in ServiceVerifyResponses : TaskVerify(resp)

SpecService == ServiceInit /\ [][ServiceNext]_vars

\* ---- one pass of handleDailyTasks of src/bot.js ----
BotKinds == Fresh({"GM", "TWEET_RETWEET"})

BotInit == (\E n \in 1..MaxWallets : BotStart(n)) /\ FilterIdle /\ RetryIdle /\ UtilIdle

BotNext ==
  \/ \E resp \in {"throwInit", "throwSign", "throwAuthenticate", "throwUserLogin", "ok"} :
       BotLogin(resp)
  \/ pc = "bot_tasks_fetch" /\ \E resp \in CatalogResponses(BotKinds, MaxWalletTasks) :
                                  BotTasksFetch(resp)
  \/ \E look \in {"ok", "throw"} : \E resp \in WalletVerifyResponses : BotTaskVerify(look, resp)
  \/ BotWalletDone
  \/ BotWalletCatch

SpecBot == BotInit /\ [][BotNext]_vars

\* ---- loading the wallets and their proxies from the configuration files ----
ProxyInit == ProxyStart /\ RequestIdle /\ MaskIdle /\ LoginPairIdle /\ SchedulerIdle /\ MainIdle /\ FilterIdle /\ RetryIdle /\ PipelineIdle

ProxyNext == InitializeWallets \/ ReadConfigFiles

SpecProxy == ProxyInit /\ [][ProxyNext]_vars


\* ---- one pass of processAllWallets, with every kind of answer to the
\* requests of login ----
InitResponses == {"throw", "noData", "noNonce", "emptyNonce", "ok"}

AuthenticateResponses == {"throw", "noData", "noToken", "emptyToken", "ok", "okNoIdentityToken"}

UserLoginResponses == {"throw", "noData", "noLogin", "emptyLogin", "ok"}

LoginKinds == Fresh({"GM"})

LoginSpecInit == (\E n \in 1..MaxWallets : WalletsStart(n)) /\ FilterIdle /\ RetryIdle /\ UtilIdle

LoginNext ==
  \/ \E resp \in InitResponses : LoginInit(resp)
  \/ \E resp \in {"throw", "ok"} : LoginSign(resp)
  \/ \E resp \in AuthenticateResponses : LoginAuthenticate(resp)
  \/ \E resp \in UserLoginResponses : LoginUserLogin(resp)
  \/ pc = "tasks_fetch" /\ \E resp \in CatalogResponses(LoginKinds, MaxWalletTasks) :
                              TasksFetch(resp)
  \/ \E resp \in WalletVerifyResponses : TaskVerify(resp)
  \/ WalletReturn

SpecLogin == LoginSpecInit /\ [][LoginNext]_vars

\* ---- scheduled runs, one after the other, of processAllWallets or of
\* handleDailyTasks of src/bot.js ----
RunCatalogs ==
  {[kind |-> "throw", activities |-> <<>>],
   [kind |-> "ok", activities |-> MkCatalog(<<[type |-> "TWEET_RETWEET", state |-> "fresh"]>>)]}

RunVerifyResponses ==
  {[kind |-> "response",
    record |-> <<[status |-> "COMPLETED", rewardRecords |-> <<[appliedRewardQuantity |-> 10]>>]>>]}

RunsInit ==
  /\ \E n \in 1..MaxWallets : WalletsStart(n) \/ BotStart(n)
  /\ FilterIdle /\ RetryIdle /\ UtilIdle

RunsNext ==
  \/ \E resp \in {"throw", "ok"} : LoginInit(resp)
  \/ LoginSign("ok")
  \/ LoginAuthenticate("ok")
  \/ LoginUserLogin("ok")
  \/ pc = "tasks_fetch" /\ \E resp \in RunCatalogs : TasksFetch(resp)
  \/ \E resp \in RunVerifyResponses : TaskVerify(resp)
  \/ WalletReturn
  \/ ProcessorNextRun
  \/ \E resp \in {"throwInit", "ok"} : BotLogin(resp)
  \/ pc = "bot_tasks_fetch" /\ \E resp \in RunCatalogs : BotTasksFetch(resp)
  \/ \E resp \in RunVerifyResponses : BotTaskVerify("ok", resp)
  \/ BotWalletDone
  \/ BotWalletCatch
  \/ BotNextRun

SpecRuns == RunsInit /\ [][RunsNext]_vars

\* ---- one request from any site of either program ----
RequestsInit == RequestStart /\ ProxyIdle /\ MaskIdle /\ LoginPairIdle /\ SchedulerIdle /\ MainIdle /\ FilterIdle /\ PipelineIdle

RequestsNext ==
  \/ RetryOperationResolves
  \/ RetryOperationRejects
  \/ \E outcome \in {"ok", "fail"} : DirectPost(outcome)

SpecRequests == RequestsInit /\ [][RequestsNext]_vars

\* ---- one call of a proxy utility on any argument ----
UtilityInit == UtilityStart /\ RequestIdle /\ MaskIdle /\ LoginPairIdle /\ SchedulerIdle /\ MainIdle /\ FilterIdle /\ RetryIdle /\ PipelineIdle

UtilityNext ==
  \E fn \in ProxyUtilities, proxyConfig \in ProxyArguments, agentThrows \in BOOLEAN :
    ProxyUtilityCall(fn, proxyConfig, agentThrows)

SpecProxyUtilities == UtilityInit /\ [][UtilityNext]_vars

\* ---- one log record through maskSensitiveData ----
MaskInit == MaskStart /\ LoginPairIdle /\ ProxyIdle /\ RequestIdle /\ SchedulerIdle /\ MainIdle /\ FilterIdle /\ RetryIdle /\ PipelineIdle

MaskNext == MaskCall

SpecMask == MaskInit /\ [][MaskNext]_vars

\* ---- the scheduler under calls, timers and signals in any order ----
SchedulerInit ==
  SchedulerConstructed /\ intervalHours \in IntervalChoices /\ MainIdle
  /\ ProxyIdle /\ RequestIdle /\ MaskIdle /\ LoginPairIdle /\ FilterIdle /\ RetryIdle
  /\ PipelineIdle

SchedulerNext ==
  \/ SchedulerStart
  \/ SchedulerStop
  \/ Signal
  \/ ProcessExit
  \/ TimerFires
  \/ RunOnce
  \/ \E by \in {"timer", "runOnce"}, outcome \in {"executionCompleted", "executionFailed"} :
       ExecutionSettles(by, outcome)
  \/ \E expired \in BOOLEAN : CountdownTick(expired)

SpecScheduler == SchedulerInit /\ [][SchedulerNext]_vars

\* ---- main: help, run-once mode and scheduled mode ----
MainInit ==
  MainStart /\ ProxyIdle /\ RequestIdle /\ MaskIdle /\ LoginPairIdle /\ FilterIdle /\ RetryIdle /\ PipelineIdle

\* Line 108 calls start() once; the scheduler then runs on its timers, with
\* the pass of this processor, until a signal ends the process
MainNext ==
  \/ MainShowHelp
  \/ MainRunOncePass
  \/ MainPassSettles
  \/ MainCreateScheduler
  \/ mainPc = "scheduled" /\ armed = <<>> /\ SchedulerStart
  \/ mainPc = "scheduled" /\ TimerFires
  \/ mainPc = "scheduled" /\ ExecutionSettles("timer", PassOutcome)
  \/ mainPc = "scheduled" /\ \E expired \in BOOLEAN : CountdownTick(expired)
  \/ mainPc = "scheduled" /\ Signal
  \/ mainPc = "scheduled" /\ ProcessExit

SpecMain == MainInit /\ [][MainNext]_vars

\* ---- the two schedulers: TaskScheduler as a library, AutomationScheduler ----
SchedulesInit ==
  /\ \/ SchedulerConstructed /\ intervalHours \in IntervalChoices /\ MainIdle
     \/ AutomationConstructed
  /\ ProxyIdle /\ RequestIdle /\ MaskIdle /\ LoginPairIdle /\ FilterIdle /\ RetryIdle /\ PipelineIdle

AutomationNext ==
  \/ AutomationStart
  \/ \E outcome \in {"executionCompleted", "executionFailed"} : AutomationPassSettles(outcome)
  \/ AutomationTimerFires
  \/ \E expired \in BOOLEAN : AutomationTick(expired)

SchedulesNext ==
  \/ mainPc = "idle" /\ SchedulerNext
  \/ AutomationNext

SpecSchedules == SchedulesInit /\ [][SchedulesNext]_vars

\* ---- one pass of processAllWallets, every request under withRetry ----
PassInit ==
  /\ \E n \in 1..MaxWallets : WalletsStart(n)
  /\ PassRetryStart
  /\ FilterIdle /\ ProxyIdle /\ MaskIdle /\ LoginPairIdle /\ SchedulerIdle /\ MainIdle

\* What the catalog query may bring back: nothing, no activities, a task
\* verified by defaultVerifyTask, or two tasks whose handlers look a property
\* up in the catalog first with a task of a skipped type between them
PassCatalogs ==
  {[kind |-> "throw", activities |-> <<>>],
   [kind |-> "noActivities", activities |-> <<>>],
   [kind |-> "ok", activities |-> MkCatalog(<<[type |-> "GM", state |-> "fresh"]>>)],
   [kind |-> "ok", activities |-> MkCatalog(<<[type |-> "TWEET_RETWEET", state |-> "fresh"],
                                              [type |-> "REFERRAL", state |-> "fresh"],
                                              [type |-> "TWEET_RETWEET", state |-> "fresh"]>>)]}

PassVerifyResponses ==
  {[kind |-> "throw", record |-> <<>>],
   [kind |-> "response",
    record |-> <<[status |-> "COMPLETED", rewardRecords |-> <<[appliedRewardQuantity |-> 10]>>]>>]}

PassNext ==
  \/ pc \in RequestPcs /\ RetryOperationResolves
  \/ pc \in RequestPcs /\ RetryOperationRejects
  \/ pc \in RequestPcs /\ RetryLoopExit
  \/ CallWithRetry
  \/ \E resp \in {"throw", "noNonce", "ok"} : Delivers(resp = "throw") /\ LoginInit(resp)
  \/ \E resp \in {"throw", "ok"} : LoginSign(resp)
  \/ \E resp \in {"throw", "noToken", "ok", "okNoIdentityToken"} :
       Delivers(resp = "throw") /\ LoginAuthenticate(resp)
  \/ \E resp \in {"throw", "noLogin", "ok"} : Delivers(resp = "throw") /\ LoginUserLogin(resp)
  \/ pc = "tasks_fetch" /\ \E resp \in PassCatalogs :
                              Delivers(resp.kind = "throw") /\ TasksFetch(resp)
  \/ \E resp \in PassVerifyResponses : Delivers(resp.kind = "throw") /\ TaskVerify(resp)
  \/ WalletReturn

SpecPass == PassInit /\ [][PassNext]_vars

\* Every attempt of a request eventually completes or times out (the axios
\* timeout of api-client.js 41), every sleep ends, and the event loop runs
\* the continuation of every settled await
FairSpecPass == SpecPass /\ WF_vars(PassNext)


\* The two logins on every combination of answers
LoginPairInit ==
  /\ LoginPairStart
  /\ ProxyIdle /\ RequestIdle /\ MaskIdle /\ SchedulerIdle /\ MainIdle
  /\ FilterIdle /\ RetryIdle /\ PipelineIdle

LoginPairNext == LoginBoth

SpecLoginPair == LoginPairInit /\ [][LoginPairNext]_vars

-----------------------------------------------------------------------------
(* Properties of the eligibility filter (SpecFilter) *)

\* The activity the filter was called on appears in what it returned
Returned(a) == \E i \in DOMAIN fResult : fResult[i] = a

\* recurringPeriod is { type: DAY, count: 1 }
DailyPeriod(a) == a.recurringPeriod = <<[type |-> "DAY", count |-> 1]>>

\* The creation times of the records of a whose status is COMPLETED
CompletedTimes(a) ==
  {a.records[i].createdAt : i \in {j \in DOMAIN a.records : a.records[j].status = "COMPLETED"}}

\* C1: filterIncompleteTasks never returns an activity whose isHidden is
\* true, whatever its records, recurringPeriod or type are.
C1_HiddenNeverReturned ==
  fPc = "done" => \A i \in DOMAIN fResult : ~fResult[i].isHidden

\* A hidden daily activity without records was filtered out
C1_Witness ==
  /\ fPc = "done"
  /\ fActivities[1].isHidden
  /\ Len(fActivities[1].records) = 0
  /\ DailyPeriod(fActivities[1])
  /\ fResult = <<>>

\* C2: a daily-recurring activity that is not hidden is returned exactly when
\* the local calendar day of its most recent COMPLETED record is strictly
\* before the current local calendar day, for every record history.
C2_DailyIffLastCompletedBeforeToday ==
  fPc = "done" =>
    \A i \in DOMAIN fActivities :
      LET a == fActivities[i] IN
        (~a.isHidden /\ DailyPeriod(a) /\ CompletedTimes(a) # {}) =>
          (Returned(a) <=> (SetMax(CompletedTimes(a)) \div DayLen) < (fNow \div DayLen))

\* C3: a non-hidden activity that is not daily-recurring is left out if and
\* only if one of its records has status COMPLETED or has a reward record with
\* status COMPLETED; an activity with no records is always returned.
C3_NonRecurringExcludedIffCompleted ==
  fPc = "done" =>
    \A i \in DOMAIN fActivities :
      LET a == fActivities[i] IN
        (~a.isHidden /\ ~DailyPeriod(a)) =>
          /\ ~Returned(a) <=>
               \E j \in DOMAIN a.records :
                 \/ a.records[j].status = "COMPLETED"
                 \/ \E k \in DOMAIN a.records[j].rewardRecords :
                      a.records[j].rewardRecords[k].status = "COMPLETED"
          /\ Len(a.records) = 0 => Returned(a)

\* A weekly activity whose only record is PENDING with a COMPLETED reward
\* record was filtered out
C3_Witness ==
  /\ fPc = "done"
  /\ ~fActivities[1].isHidden
  /\ fActivities[1].recurringPeriod = <<[type |-> "WEEK", count |-> 1]>>
  /\ Len(fActivities[1].records) = 1
  /\ fActivities[1].records[1].status = "PENDING"
  /\ fActivities[1].records[1].rewardRecords = <<[status |-> "COMPLETED"]>>
  /\ fResult = <<>>

-----------------------------------------------------------------------------
(* Properties of the retry wrapper (SpecRetry) *)

AllFailed(outcomes) == \A i \in DOMAIN outcomes : outcomes[i] = "fail"

\* C6: with maxRetries = R >= 1, an operation that fails N-1 times and
\* succeeds on attempt N <= R makes the wrapper return that result after
\* exactly N invocations and N-1 sleeps; an operation that fails R times makes
\* it throw the error of the last attempt after exactly R invocations and R-1
\* sleeps; the operation is never invoked again after a success.
C6_RetryCounts ==
  rMaxRetries >= 1 =>
    LET n == Len(rOutcomes) IN
      /\ n <= rMaxRetries
      /\ \A i \in 1..(n - 1) : rOutcomes[i] = "fail"
      /\ (n >= 1 /\ rOutcomes[n] = "ok") <=> rPc = "returned"
      /\ (n = rMaxRetries /\ AllFailed(rOutcomes)) <=> rPc = "thrown"
      /\ rPc = "returned" => rValue = <<n>> /\ Len(rSleeps) = n - 1
      /\ rPc = "thrown" => rError = <<rMaxRetries>> /\ Len(rSleeps) = rMaxRetries - 1
      /\ rPc = "loop" => Len(rSleeps) = n

\* The third of four attempts succeeded after two failures and two sleeps
C6_Witness ==
  /\ rPc = "returned"
  /\ rMaxRetries = 4
  /\ rOutcomes = <<"fail", "fail", "ok">>
  /\ Len(rSleeps) = 2

-----------------------------------------------------------------------------
(* Properties of processAllTasks (SpecOrder, SpecTasks) *)

\* The entries of the log that wallet w produced with an operation in ops
LogOf(w, ops) == SelectSeq(log, LAMBDA e : e.w = w /\ e.op \in ops)

OpsOf(entries) == [i \in DOMAIN entries |-> entries[i].op]

\* The verification requests sent so far, in order
Verifications == SelectSeq(log, LAMBDA e : e.op = "VerifyActivity")

\* The type of the task with the given id in the sorted list
TypeOfTask(id) == (CHOOSE t \in Range(tasks) : t.id = id).type

PriorityTableTypes ==
  {"GM", "CHECK_IN", "TWITTER_FOLLOW", "FARCASTER_FOLLOW", "TWEET_RETWEET",
   "EXTERNAL_LINK", "QUIZ", "REFERRAL", "REFEREE_SIGNUP_BONUS"}

TypesOf(list) == [i \in DOMAIN list |-> list[i].type]

\* C4: every task whose type is not in the priority table is verified after
\* every task whose type is in the table.
C4_UnlistedVerifiedLast ==
  \A i \in DOMAIN Verifications : \A j \in DOMAIN Verifications :
    i < j => ~ /\ TypeOfTask(Verifications[i].arg) \notin PriorityTableTypes
               /\ TypeOfTask(Verifications[j].arg) \in PriorityTableTypes

\* C5: when all the tasks have types of the priority table, they are
\* verified in the priority-table order of their types, two tasks of the same
\* type in the order the server returned them (activity ids are positions in
\* the server's list); every task is verified once.
C5_ListedTasksInPriorityOrder ==
  (pc = "tasks_done" /\ cachedTasks # <<>>) =>
    LET auto == SelectSeq(cachedTasks[1], LAMBDA t : t.type \notin skippedTaskTypes)
        v == Verifications
    IN (\A i \in DOMAIN auto : auto[i].type \in PriorityTableTypes) =>
         /\ Len(v) = Len(auto)
         /\ \A i \in DOMAIN auto : \E k \in DOMAIN v : v[k].arg = auto[i].id
         /\ \A i \in DOMAIN v : \A j \in DOMAIN v :
              i < j =>
                LET ri == indexOf(priorityOrder, TypeOfTask(v[i].arg))
                    rj == indexOf(priorityOrder, TypeOfTask(v[j].arg))
                IN ri < rj \/ (ri = rj /\ v[i].arg < v[j].arg)

\* The server returned [QUIZ, GM, TWEET_RETWEET, CHECK_IN] and the tasks were
\* verified as [GM, CHECK_IN, TWEET_RETWEET, QUIZ]
C5_Witness ==
  /\ pc = "tasks_done"
  /\ cachedTasks # <<>>
  /\ TypesOf(cachedTasks[1]) = <<"QUIZ", "GM", "TWEET_RETWEET", "CHECK_IN">>
  /\ [i \in DOMAIN Verifications |-> TypeOfTask(Verifications[i].arg)]
       = <<"GM", "CHECK_IN", "TWEET_RETWEET", "QUIZ">>

\* C10: a failure while verifying one task (a thrown error, a null or a
\* non-COMPLETED result) never stops the loop: every task of the sorted list
\* is submitted for verification, and the failing task is in failedTasks.
C10_TaskFailureDoesNotStopLoop ==
  LET v == Verifications IN
    /\ pc = "tasks_loop" => Len(v) = tIdx - 1 /\ tIdx <= Len(tasks)
    /\ pc = "tasks_done" => Len(v) = Len(tasks)
    /\ \A k \in DOMAIN v :
         /\ v[k].arg = tasks[k].id
         /\ v[k].out # "COMPLETED" =>
              \E f \in DOMAIN failedTasks : failedTasks[f].title = v[k].arg

\* The first task's verification threw, the second task was still verified
\* and completed
C10_Witness ==
  /\ pc = "tasks_done"
  /\ Len(tasks) = 2
  /\ Len(Verifications) = 2
  /\ Verifications[1].out = "throw"
  /\ failedTasks = <<[title |-> tasks[1].id, type |-> "QUIZ", error |-> <<"network">>]>>
  /\ Verifications[2].out = "COMPLETED"
  /\ Len(completedTasks) = 1

-----------------------------------------------------------------------------
(* Properties of login and of the pass over the wallets (SpecWallets) *)

LoginOps == {"init", "sign", "authenticate", "UserLogin", "setTokens"}

FullLogin == <<"init", "sign", "authenticate", "UserLogin", "setTokens">>

IsPrefix(s, t) == Len(s) <= Len(t) /\ \A i \in DOMAIN s : s[i] = t[i]

StepSucceeded(e) == e.out \in {"ok", "okNoIdentityToken"}

\* The login of wallet w went through all its steps and each succeeded
LoginCompleted(w) ==
  LET steps == LogOf(w, LoginOps) IN
    OpsOf(steps) = FullLogin /\ \A i \in DOMAIN steps : StepSucceeded(steps[i])

\* A step of the login of wallet w failed
LoginFailed(w) ==
  LET steps == LogOf(w, LoginOps) IN \E i \in DOMAIN steps : ~StepSucceeded(steps[i])

C8_TokensOnlyOnSuccess ==
  \A w \in 1..wCount :
    /\ (apiToken[w] # <<>> \/ apiIdToken[w] # <<>> \/ authenticated[w]) => LoginCompleted(w)
    /\ LoginFailed(w) => apiToken[w] = <<>> /\ apiIdToken[w] = <<>> /\ ~authenticated[w]
    /\ authenticated[w] => apiToken[w] = <<w>>

\* /authenticate had returned an identity token, UserLogin then answered
\* without a login token: nothing was installed
C8_Witness ==
  /\ Len(results) >= 1
  /\ results[1].error = <<"Failed to login to Deform">>
  /\ \E i \in DOMAIN log : log[i].w = 1 /\ log[i].op = "authenticate" /\ log[i].out = "ok"
  /\ apiToken[1] = <<>>
  /\ apiIdToken[1] = <<>>
  /\ ~authenticated[1]

\* C9: when authentication of wallet i fails, the pass records for wallet i a
\* result with an error field and totalTasks = 0, sends no catalog or
\* verification request for wallet i, and still processes every later wallet.
C9_AuthFailureIsolated ==
  /\ \A i \in DOMAIN results :
       /\ results[i].wallet = i
       /\ LoginFailed(i) =>
            /\ results[i].error # <<>>
            /\ results[i].totalTasks = 0
  /\ \A i \in 1..wCount :
       LoginFailed(i) => LogOf(i, {"CampaignActivitiesPanel", "VerifyActivity"}) = <<>>
  /\ pc # "done" => Len(results) = wIdx - 1 /\ wIdx <= wCount
  /\ pc = "done" =>
       /\ Len(results) = wCount
       /\ \A j \in 1..wCount : Len(LogOf(j, {"init"})) = 1

\* The nonce request of wallet 1 failed on every retry; wallet 2 was then
\* authenticated and its task processed
C9_Witness ==
  /\ pc = "done"
  /\ wCount = 2
  /\ log[1].op = "init" /\ log[1].out = "throw"
  /\ results[1].error = <<"network">>
  /\ results[1].totalTasks = 0
  /\ authenticated[2]
  /\ results[2].totalTasks = 1

-----------------------------------------------------------------------------
(* Properties of the summary of processAllTasks (SpecTasks) *)

\* The returns of verifyTask so far, in order: arg is the task's id, out is
\* "resolved" or "rejected", rec the result it resolved to
VerifyReturns == SelectSeq(log, LAMBDA e : e.op = "verifyTask")

\* The verification of the task with this id came back with status COMPLETED
CompletedByServer(id) ==
  \E k \in DOMAIN VerifyReturns :
    /\ VerifyReturns[k].arg = id
    /\ VerifyReturns[k].out = "resolved"
    /\ Len(VerifyReturns[k].rec) = 1
    /\ VerifyReturns[k].rec[1].status = "COMPLETED"

TitlesOf(list) == {list[i].title : i \in DOMAIN list}

\* C11: in the summary processAllTasks returns, every processed task is in
\* exactly one of completedTasks and failedTasks, in completedTasks exactly
\* when its verification result has status COMPLETED, and
\* completedCount + failedCount = totalTasks.
C11_SummaryPartitionsTasks ==
  (pc = "tasks_done" /\ summary # <<>>) =>
    LET s == summary[1] IN
      /\ \A i \in DOMAIN tasks :
           /\ (tasks[i].id \in TitlesOf(s.completedTasks)) # (tasks[i].id \in TitlesOf(s.failedTasks))
           /\ (tasks[i].id \in TitlesOf(s.completedTasks)) <=> CompletedByServer(tasks[i].id)
      /\ Len(s.completedTasks) + Len(s.failedTasks) = Len(tasks)
      /\ s.completedCount = Len(s.completedTasks)
      /\ s.failedCount = Len(s.failedTasks)
      /\ s.totalTasks = Len(tasks)
      /\ s.completedCount + s.failedCount = s.totalTasks

\* Three tasks: one completed, one answered PENDING, one whose request failed
C11_Witness ==
  /\ pc = "tasks_done"
  /\ summary # <<>>
  /\ summary[1].totalTasks = 3
  /\ summary[1].completedCount = 1
  /\ summary[1].failedCount = 2
  /\ \E k \in DOMAIN VerifyReturns : VerifyReturns[k].out = "rejected"
  /\ \E k \in DOMAIN VerifyReturns :
       VerifyReturns[k].rec = <<[status |-> "PENDING", rewardRecords |-> <<>>]>>

RECURSIVE AwardedPoints(_)
\* The sum, over the verifications that resolved to a COMPLETED record, of
\* appliedRewardQuantity of the record's first reward record
AwardedPoints(returns) ==
  IF Len(returns) = 0 THEN 0
  ELSE LET e == returns[1]
           q == IF /\ e.out = "resolved"
                   /\ Len(e.rec) = 1
                   /\ e.rec[1].status = "COMPLETED"
                   /\ Len(e.rec[1].rewardRecords) > 0
                  THEN e.rec[1].rewardRecords[1].appliedRewardQuantity
                  ELSE 0
       IN q + AwardedPoints(Tail(returns))

\* C12: totalPoints is the sum, over the tasks classified as completed, of
\* appliedRewardQuantity of the first reward record of the verification
\* result (0 without a reward record); failed tasks contribute nothing.
C12_TotalPointsIsSumOfAwards ==
  (pc = "tasks_done" /\ summary # <<>>) =>
    summary[1].totalPoints = AwardedPoints(VerifyReturns)

\* One eligible CHECK_IN task answered COMPLETED with quantity 10
C12_Witness ==
  /\ pc = "tasks_done"
  /\ summary # <<>>
  /\ Len(tasks) = 1
  /\ tasks[1].type = "CHECK_IN"
  /\ VerifyReturns[1].rec =
       <<[status |-> "COMPLETED", rewardRecords |-> <<[appliedRewardQuantity |-> 10]>>]>>
  /\ summary[1].totalTasks = 1
  /\ summary[1].completedCount = 1
  /\ summary[1].totalPoints = 10

-----------------------------------------------------------------------------
(* Properties of getAvailableTasks (SpecService, SpecTasks) *)

SkipSet == {"FARCASTER_FOLLOW", "REFERRAL", "REFEREE_SIGNUP_BONUS"}

\* The positions of the log where a call of getAvailableTasks returned
CallPositions == {i \in DOMAIN log : log[i].op = "getAvailableTasks"}

\* The call that returned at position i sent the catalog query (a query is
\* always followed by the return of the call that sent it)
QuerySent(i) == i > 1 /\ log[i - 1].op = "CampaignActivitiesPanel"

\* The catalog queries before position i that the server answered with activities
OkQueriesBefore(i) ==
  {j \in 1..(i - 1) : log[j].op = "CampaignActivitiesPanel" /\ log[j].out = "ok"}

\* The eligible set of the activities the query at position j brought back
EligibleOf(j) == filterIncompleteTasks(log[j].rec[1], MaxTime)

ViewOf(list, includeSkipped) ==
  IF includeSkipped THEN list ELSE SelectSeq(list, LAMBDA t : t.type \notin SkipSet)

\* An activity of a skipped type that passes the eligibility filter
SkippedEligible(a) == a.type \in SkipSet /\ ~a.isHidden /\ Len(a.records) = 0

\* C13: tasks of type FARCASTER_FOLLOW, REFERRAL or REFEREE_SIGNUP_BONUS are
\* never submitted for verification by processAllTasks and not counted in
\* totalTasks, yet they stay in the cached eligible catalog and are returned
\* by getAvailableTasks({includeSkipped: true}).
C13_SkippedTypesKeptButNotProcessed ==
  /\ \A i \in DOMAIN tasks : tasks[i].type \notin SkipSet
  /\ \A k \in DOMAIN Verifications :
       \E i \in DOMAIN tasks : tasks[i].id = Verifications[k].arg
  /\ (pc = "tasks_done" /\ summary # <<>>) => summary[1].totalTasks = Len(tasks)
  /\ LET oks == OkQueriesBefore(Len(log) + 1) IN
       oks # {} =>
         /\ cachedTasks # <<>>
         /\ \A a \in Range(log[SetMax(oks)].rec[1]) :
              SkippedEligible(a) => a \in Range(cachedTasks[1])
  /\ \A i \in CallPositions :
       log[i].meta[1].includeSkipped =>
         LET prior == OkQueriesBefore(i - 1)
             from == IF QuerySent(i) THEN IF log[i - 1].out = "ok" THEN {i - 1} ELSE {}
                     ELSE IF prior # {} THEN {SetMax(prior)} ELSE {}
         IN \A j \in from : \A a \in Range(log[j].rec[1]) :
              SkippedEligible(a) => a \in Range(log[i].rec[1])

\* processAllTasks found only a REFERRAL task: nothing was verified and
\* totalTasks is 0; a later getAvailableTasks({includeSkipped: true}) returned
\* the task from the cache
C13_Witness ==
  /\ pc = "tasks_done"
  /\ summary # <<>>
  /\ summary[1].totalTasks = 0
  /\ Verifications = <<>>
  /\ Len(log) = 3
  /\ log[1].op = "CampaignActivitiesPanel"
  /\ log[2].meta = <<[refresh |-> FALSE, includeSkipped |-> FALSE]>>
  /\ log[2].rec = << <<>> >>
  /\ log[3].meta = <<[refresh |-> FALSE, includeSkipped |-> TRUE]>>
  /\ Len(log[3].rec[1]) = 1
  /\ log[3].rec[1][1].type = "REFERRAL"
  /\ cachedTasks = log[3].rec

\* C17: once a call has fetched and cached the eligible set, every later call
\* without refresh sends no request and returns the cached eligible set (less
\* the skipped types unless includeSkipped); a call with refresh sends exactly
\* one new catalog query and, when it succeeds, replaces the cache.
C17_CacheServesLaterCalls ==
  /\ \A i \in CallPositions :
       LET opts == log[i].meta[1]
           prior == OkQueriesBefore(i - 1)
       IN /\ (prior # {} /\ ~opts.refresh) =>
               /\ ~QuerySent(i)
               /\ log[i].rec = <<ViewOf(EligibleOf(SetMax(prior)), opts.includeSkipped)>>
          /\ opts.refresh =>
               /\ QuerySent(i)
               /\ i > 2 => log[i - 2].op # "CampaignActivitiesPanel"
               /\ log[i - 1].out = "ok" =>
                    log[i].rec = <<ViewOf(EligibleOf(i - 1), opts.includeSkipped)>>
  /\ LET oks == OkQueriesBefore(Len(log) + 1) IN
       oks # {} => cachedTasks = <<EligibleOf(SetMax(oks))>>

\* A first call fetched a catalog; a second call with refresh fetched another
\* one, which replaced the cache
C17_Witness ==
  /\ Len(log) = 4
  /\ log[1].op = "CampaignActivitiesPanel" /\ log[1].out = "ok"
  /\ log[2].op = "getAvailableTasks"
  /\ log[3].op = "CampaignActivitiesPanel" /\ log[3].out = "ok"
  /\ log[4].op = "getAvailableTasks"
  /\ log[4].meta[1].refresh
  /\ log[3].rec # log[1].rec
  /\ cachedTasks = <<EligibleOf(3)>>
  /\ cachedTasks # <<EligibleOf(1)>>

\* C18: getAvailableTasks never throws: when the payload has no
\* campaign.activities or the request fails on all retries it returns an
\* empty list, and processAllTasks then returns a summary with totalTasks = 0
\* and no error field.
C18_FetchFailureIsEmptyCatalog ==
  /\ \A i \in DOMAIN log :
       (log[i].op = "CampaignActivitiesPanel" /\ log[i].out # "ok") =>
         /\ i < Len(log)
         /\ log[i + 1].op = "getAvailableTasks"
         /\ log[i + 1].out = "returned"
         /\ log[i + 1].rec = << <<>> >>
  /\ (Len(log) >= 1 /\ log[1].op = "CampaignActivitiesPanel" /\ log[1].out # "ok") =>
       /\ pc = "tasks_done"
       /\ Verifications = <<>>
       /\ Len(summary) = 1
       /\ summary[1].error = <<>>
       /\ summary[1].totalTasks = 0
       /\ summary[1].completedCount = 0
       /\ summary[1].failedCount = 0

\* The catalog request failed on every retry: processAllTasks returned the
\* empty summary
C18_Witness ==
  /\ pc = "tasks_done"
  /\ Len(log) = 2
  /\ log[1].op = "CampaignActivitiesPanel"
  /\ log[1].out = "throw"
  /\ summary # <<>>
  /\ summary[1].totalTasks = 0
  /\ summary[1].error = <<>>

-----------------------------------------------------------------------------
(* Properties of verifyTask (SpecTasks, SpecOrder) *)

\* The task is a QUIZ whose activity id has a non-empty entry in the answer table
QuizWithAnswers(task) == task.type = "QUIZ" /\ quizAnswers(task.id) # <<>>

\* The VerifyActivity requests sent for the activity with this id
RequestsFor(id) == SelectSeq(Verifications, LAMBDA e : e.arg = id)

\* C14: for a QUIZ task whose activity id has a non-empty entry in the answer
\* table, the VerifyActivity request carries the task's activityId and
\* metadata.responses equal to the table entry.
C14_QuizRequestCarriesAnswers ==
  \A k \in DOMAIN Verifications :
    QuizWithAnswers(tasks[k]) =>
      /\ Verifications[k].arg = tasks[k].id
      /\ Verifications[k].meta = <<quizAnswers(tasks[k].id)>>

\* A QUIZ with an entry in the table was verified with that entry as responses
C14_Witness ==
  /\ Len(Verifications) >= 1
  /\ tasks[Len(Verifications)].type = "QUIZ"
  /\ tasks[Len(Verifications)].id \in QuizIdsWithAnswers
  /\ Verifications[Len(Verifications)].meta =
       << <<[questionId |-> "q1", answer |-> tasks[Len(Verifications)].id]>> >>

\* C15: for every type other than QUIZ, listed or not, and for a QUIZ without
\* an entry in the answer table, verifyTask sends exactly the default
\* VerifyActivity mutation: one request with the activityId and no metadata.
C15_DefaultRequestHasNoMetadata ==
  /\ \A k \in DOMAIN Verifications :
       ~QuizWithAnswers(tasks[k]) =>
         /\ Verifications[k].arg = tasks[k].id
         /\ Verifications[k].meta = <<>>
  /\ \A k \in DOMAIN VerifyReturns :
       ~QuizWithAnswers(tasks[k]) => Len(RequestsFor(tasks[k].id)) = 1

\* A task of a type outside the priority table and a QUIZ without an entry in
\* the table were both verified with the default request
C15_Witness ==
  /\ pc = "tasks_done"
  /\ Len(tasks) = 2
  /\ tasks[1].type = "OTHER"
  /\ tasks[2].type = "QUIZ"
  /\ tasks[2].id \notin QuizIdsWithAnswers
  /\ Len(Verifications) = 2
  /\ Verifications[1].meta = <<>>
  /\ Verifications[2].meta = <<>>

\* C16: for every task type, when the verification request fails on all
\* retries, verifyTask resolves to null instead of rejecting, QUIZ with
\* answers included.
C16_VerifyFailureResolvesNull ==
  \A k \in DOMAIN VerifyReturns :
    Verifications[k].out = "throw" =>
      /\ VerifyReturns[k].out = "resolved"
      /\ VerifyReturns[k].rec = <<>>

-----------------------------------------------------------------------------
(* Properties of the pass over the wallets (SpecWallets, SpecBot) *)

\* The wallet a result record is about
ResultWallet(r) == IF "wallet" \in DOMAIN r THEN r.wallet ELSE r.walletAddress

\* C19: the wallets are handled strictly one at a time in configuration
\* order: nothing is sent for wallet i+1 before the processing of wallet i
\* has finished, and the results hold exactly one record per configured
\* wallet, in configuration order.
C19_WalletsOneAtATime ==
  /\ \A p \in DOMAIN log : log[p].w <= Len(results) + 1
  /\ \A p \in DOMAIN log : \A q \in DOMAIN log : p < q => log[p].w <= log[q].w
  /\ \A i \in DOMAIN results : ResultWallet(results[i]) = i
  /\ Len(results) <= wCount
  /\ pc = "done" => Len(results) = wCount

\* Two wallets were processed, each with a task, the first one failing its
\* verification
C19_Witness ==
  /\ pc = "done"
  /\ wCount = 2
  /\ Len(results) = 2
  /\ results[1].wallet = 1 /\ results[1].failedCount = 1
  /\ results[2].wallet = 2 /\ results[2].completedCount = 1
  /\ \E p \in DOMAIN log : log[p].w = 1 /\ log[p].op = "VerifyActivity"
  /\ \E p \in DOMAIN log : log[p].w = 2 /\ log[p].op = "VerifyActivity"

\* C20: the 5000 ms pacing delay elapses between the end of wallet i and the
\* start of wallet i+1 for every pair of consecutive wallets, also when
\* wallet i ended in a failure: whatever the pass does first for a wallet
\* comes right after the delay awaited for the wallet before it.
C20_PacingBetweenWallets ==
  \A p \in 2..Len(log) :
    log[p].w # log[p - 1].w => log[p - 1].op = "sleep5000"

-----------------------------------------------------------------------------
(* Properties of the proxy assignment (SpecProxy) *)

\* The lines of proxy.txt that parse to a proxy, by line number
ParsedLineNumbers == {k \in DOMAIN xProxyFile : xProxyFile[k].parts = 4}

\* The line number of the n-th parsed proxy, n counted from 0
LineOfProxy(n) ==
  CHOOSE k \in ParsedLineNumbers : Cardinality({j \in ParsedLineNumbers : j < k}) = n

\* Wallet i (counted from 0) holds exactly the object made from file line k
HoldsProxyOfLine(i, k) ==
  /\ Len(xWallets[i + 1]) = 1
  /\ xWallets[i + 1][1].line = k
  /\ xWallets[i + 1][1].host = <<xProxyFile[k].host>>
  /\ xWallets[i + 1][1].port = <<xProxyFile[k].port>>
  /\ xWallets[i + 1][1].username = <<xProxyFile[k].username>>
  /\ xWallets[i + 1][1].password = <<xProxyFile[k].password>>

\* C21: with W wallets and P parsed proxies, wallet i (0-indexed) receives
\* proxies[i] when P >= W and proxies[i mod P] when 0 < P < W; with P = 0 every
\* wallet receives null; and when P >= W no two wallets share a proxy entry.
C21_ProxyAssignment ==
  xPc = "loaded" =>
    LET W == xPrivateKeys
        P == Cardinality(ParsedLineNumbers)
    IN /\ Len(xWallets) = W
       /\ \A i \in 0..(W - 1) :
            IF P = 0 THEN xWallets[i + 1] = <<>>
            ELSE IF P >= W THEN HoldsProxyOfLine(i, LineOfProxy(i))
            ELSE HoldsProxyOfLine(i, LineOfProxy(i % P))
       /\ P >= W =>
            \A i, j \in 1..W : i # j => xWallets[i][1].line # xWallets[j][1].line

\* Three wallets loaded over two parsed proxies: the third wallet wraps around
C21_Witness ==
  /\ xPc = "loaded"
  /\ xPrivateKeys = 3
  /\ Cardinality(ParsedLineNumbers) = 2
  /\ Len(xProxyFile) = 3
  /\ xWallets[3] = xWallets[1]
  /\ xWallets[2] # xWallets[1]

-----------------------------------------------------------------------------
(* Properties of the response checks of AuthService.login (SpecLogin) *)

\* A field of a response that is present and not the empty string
NonEmptyString(field) == field # <<>> /\ field # <<"">>

\* The steps taken for the wallet of entry p after that entry
OpsAfter(p) == {log[q].op : q \in {r \in (p + 1)..Len(log) : log[r].w = log[p].w}}

\* login() of wallet w has thrown this message: authenticateWallet is about to
\* return the failure, or the pass has recorded it
FailedWith(w, message) ==
  \/ pc = "auth_failed" /\ wIdx = w /\ authError = <<message>>
  \/ Len(results) >= w /\ results[w].error = <<message>>

\* C22: login fails when the /init response carries no nonce: it throws before
\* any message is signed and before any /authenticate request is sent.
C22_NoNonceFailsBeforeSigning ==
  \A p \in DOMAIN log :
    (log[p].op = "init" /\ log[p].out # "throw" /\ ~NonEmptyString(NonceOf(log[p].out))) =>
      /\ OpsAfter(p) \cap {"sign", "authenticate", "UserLogin", "setTokens"} = {}
      /\ FailedWith(log[p].w, "Failed to get authentication nonce")
      /\ ~authenticated[log[p].w]

\* /init answered without a nonce and the pass ended with the failure recorded
C22_Witness ==
  /\ pc = "done"
  /\ wCount = 1
  /\ Len(log) = 1
  /\ log[1].op = "init"
  /\ log[1].out = "noNonce"
  /\ results[1].error = <<"Failed to get authentication nonce">>

\* C23: login fails when the /authenticate response carries no token, and then
\* sends no UserLogin mutation; a response with token but no identity_token
\* does not fail the login.
C23_NoTokenFailsBeforeUserLogin ==
  \A p \in DOMAIN log :
    log[p].op = "authenticate" /\ log[p].out # "throw" =>
      IF NonEmptyString(TokenOf(log[p].out))
        THEN /\ p < Len(log) /\ log[p + 1].op = "sleep1000"
             /\ ~FailedWith(log[p].w, "Failed to authenticate with Privy")
             /\ (p + 1 = Len(log) => pc = "login_deform" /\ authError = <<>>)
        ELSE /\ OpsAfter(p) \cap {"UserLogin", "setTokens"} = {}
             /\ FailedWith(log[p].w, "Failed to authenticate with Privy")
             /\ ~authenticated[log[p].w]

\* /authenticate answered without a token after the nonce and the signature
C23_Witness ==
  /\ pc = "done"
  /\ wCount = 1
  /\ \E p \in DOMAIN log : log[p].op = "authenticate" /\ log[p].out = "noToken"
  /\ \A p \in DOMAIN log : log[p].op # "UserLogin"
  /\ results[1].error = <<"Failed to authenticate with Privy">>

\* C24: login fails when the UserLogin response has an absent or empty
\* userLogin string and then never calls setTokens; whenever login succeeds
\* the installed platform token is a non-empty string.
C24_EmptyLoginTokenNeverInstalled ==
  /\ \A p \in DOMAIN log :
       (log[p].op = "UserLogin" /\ log[p].out # "throw"
          /\ ~NonEmptyString(UserLoginOf(log[p].out))) =>
         /\ "setTokens" \notin OpsAfter(p)
         /\ FailedWith(log[p].w, "Failed to login to Deform")
         /\ apiToken[log[p].w] = <<>>
         /\ ~authenticated[log[p].w]
  /\ \A p \in DOMAIN log : log[p].op = "setTokens" => NonEmptyString(log[p].rec)
  /\ \A w \in 1..wCount :
       (authenticated[w] \/ apiToken[w] # <<>>) =>
         \E p \in DOMAIN log :
           log[p].w = w /\ log[p].op = "setTokens" /\ NonEmptyString(log[p].rec)

\* UserLogin answered with an empty string: no token was installed
C24_Witness ==
  /\ pc = "done"
  /\ wCount = 1
  /\ \E p \in DOMAIN log : log[p].op = "UserLogin" /\ log[p].out = "emptyLogin"
  /\ results[1].error = <<"Failed to login to Deform">>
  /\ apiToken[1] = <<>>

-----------------------------------------------------------------------------
(* Properties of the request headers (SpecLogin) *)

RequestOps == {"init", "authenticate", "UserLogin", "CampaignActivitiesPanel", "VerifyActivity"}

\* setTokens has run for the wallet of entry p before that entry
TokenInstalledBefore(p) ==
  \E q \in 1..(p - 1) : log[q].w = log[p].w /\ log[q].op = "setTokens"

\* ... and the /authenticate answer of that login carried an identity token
IdentityTokenInstalledBefore(p) ==
  /\ TokenInstalledBefore(p)
  /\ \E q \in 1..(p - 1) :
       log[q].w = log[p].w /\ log[q].op = "authenticate" /\ log[q].out = "ok"

\* C25: a request built by ApiClient carries Authorization: Bearer iff a
\* platform token has been installed and privy-id-token iff an identity token
\* has been installed; so the three login requests carry neither, and every
\* catalog and verification request after a successful login carries
\* Authorization.
C25_HeadersFollowInstalledTokens ==
  \A p \in DOMAIN log :
    log[p].op \in RequestOps =>
      /\ (log[p].auth # <<>>) <=> TokenInstalledBefore(p)
      /\ log[p].auth # <<>> => log[p].auth = <<"Bearer", log[p].w>>
      /\ (log[p].idAuth # <<>>) <=> IdentityTokenInstalledBefore(p)
      /\ log[p].op \in {"init", "authenticate", "UserLogin"} =>
           log[p].auth = <<>> /\ log[p].idAuth = <<>>
      /\ log[p].op \in {"CampaignActivitiesPanel", "VerifyActivity"} =>
           log[p].auth # <<>>

\* After a login whose /authenticate answer had an identity token, a
\* verification request went out with both headers
C25_Witness ==
  \E p \in DOMAIN log :
    /\ log[p].op = "VerifyActivity"
    /\ log[p].auth = <<"Bearer", log[p].w>>
    /\ log[p].idAuth # <<>>
    /\ \E q \in 1..(p - 1) : log[q].op = "UserLogin" /\ log[q].auth = <<>>

-----------------------------------------------------------------------------
(* Properties of the tokens and caches across wallets and runs (SpecRuns) *)

\* Two entries of the log belong to the same wallet's pass of the same run
SamePass(p, q) == log[p].run = log[q].run /\ log[p].w = log[q].w

\* The positions of the UserLogin answers that issued a platform token
IssuingLogins == {q \in DOMAIN log : log[q].op = "UserLogin" /\ log[q].out = "ok"}

-----------------------------------------------------------------------------
(* Properties of the requests under the retry wrapper (SpecRequests) *)

\* C27: every network request (nonce, authenticate, UserLogin, catalog query,
\* default verification and quiz verification) is executed under the retry
\* wrapper, in ApiClient and in bot.js alike: a failed attempt is retried up to
\* the configured maximum before a failure is reported.
C27_EveryRequestIsRetried ==
  qSite \in RequestSites =>
    /\ rPc = "thrown" => Len(rOutcomes) = rMaxRetries
    /\ (rOutcomes # <<>> /\ rOutcomes[Len(rOutcomes)] = "fail"
          /\ Len(rOutcomes) < rMaxRetries) => rPc = "loop"

-----------------------------------------------------------------------------
(* Properties of the proxy utilities (SpecProxyUtilities) *)

\* The argument of the call is absent or lacks a host or a port
LacksHostOrPort(config) ==
  \/ config = <<>>
  \/ ~NonEmptyString(config[1].host)
  \/ ~NonEmptyString(config[1].port)

HasCredentials(config) ==
  NonEmptyString(config[1].username) /\ NonEmptyString(config[1].password)

\* The proxy URLs that occur in what the call returned
UrlsIn(call) ==
  IF call.fn = "parseProxy"
    THEN {call.outcome.value[i].proxyUrl : i \in DOMAIN call.outcome.value}
    ELSE {call.outcome.value.httpAgent[i] : i \in DOMAIN call.outcome.value.httpAgent}
         \cup {call.outcome.value.httpsAgent[i] : i \in DOMAIN call.outcome.value.httpsAgent}

\* C28: parseProxy and configureAxiosWithProxy never throw: for a proxy config
\* that is absent or lacks host or port they return null / the unchanged axios
\* config, and credentials are embedded in the proxy URL only when both
\* username and password are present.
C28_ProxyUtilitiesNeverThrow ==
  \A i \in DOMAIN xCall :
    LET call == xCall[i] IN
      /\ ~call.outcome.threw
      /\ LacksHostOrPort(call.config) =>
           call.outcome.value = (IF call.fn = "parseProxy" THEN <<>> ELSE BaseAxiosConfig)
      /\ \A url \in UrlsIn(call) :
           /\ url[1] = "http://"
           /\ ("@" \in Range(url)) <=> HasCredentials(call.config)
           /\ HasCredentials(call.config) =>
                url = <<"http://", call.config[1].username[1], ":",
                        call.config[1].password[1], "@",
                        call.config[1].host[1], ":", call.config[1].port[1]>>

\* configureAxiosWithProxy was given a host and a port and a username without a
\* password: the agents were made for a URL without credentials
C28_Witness ==
  /\ xPc = "called"
  /\ xCall[1].fn = "configureAxiosWithProxy"
  /\ xCall[1].config = <<[host |-> <<"h">>, port |-> <<"8080">>,
                          username |-> <<"u">>, password |-> <<>>]>>
  /\ xCall[1].outcome.value.httpsAgent = << <<"http://", "h", ":", "8080">> >>
  /\ xCall[1].outcome.value.proxy = "false"

-----------------------------------------------------------------------------
(* Properties of maskSensitiveData (SpecMask) *)

\* The <<value passed, value returned>> pairs of the fields, at any depth,
\* whose key names a secret
RECURSIVE SecretPairs(_, _)
SecretPairs(orig, res) ==
  IF orig.kind # "object" \/ res.kind # "object" THEN {}
  ELSE UNION {IF IsSensitiveKey(orig.fields[i].key)
                THEN {<<orig.fields[i].value, res.fields[i].value>>}
                ELSE SecretPairs(orig.fields[i].value, res.fields[i].value)
              : i \in DOMAIN orig.fields}

\* masked is a strict prefix of chars, of at most 4 characters, then the mask
StrictPrefixThenMask(chars, masked) ==
  \E n \in 0..Min(4, Len(chars) - 1) : masked = SubSeq(chars, 1, n) \o Mask

\* C29: in the record maskSensitiveData returns, every field at any depth
\* whose key names a secret holds a string that is never the full value: a
\* non-empty string value has become a strict prefix of itself of at most 4
\* characters followed by the mask, whatever its length, and an empty string
\* or a value that is not a string has become the mask alone.
C29_SecretsNeverEmittedInFull ==
  mPc = "called" =>
    \A pair \in SecretPairs(mInfo, mResult[1]) :
      /\ pair[2].kind = "string"
      /\ IF pair[1].kind = "string" /\ Len(pair[1].chars) > 0
           THEN StrictPrefixThenMask(pair[1].chars, pair[2].chars)
           ELSE pair[2].chars = Mask

-----------------------------------------------------------------------------
(* Properties of the scheduler (SpecScheduler) *)

\* stop() was called at position i and start() has not been called since,
\* up to position j
StoppedThrough(i, j) ==
  /\ events[i].name = "stop"
  /\ \A k \in (i + 1)..(j - 1) : events[k].name # "start"

\* C30: once stop() has been called (by a caller or by a signal handler),
\* and until start() is called again, no timer starts an execution of the
\* processor: neither the timeout already armed nor a later one.
C30_NoExecutionStartsAfterStop ==
  \A j \in DOMAIN events :
    (events[j] = Event("executionStarted", "timer")) =>
      ~ \E i \in 1..(j - 1) : StoppedThrough(i, j)

-----------------------------------------------------------------------------
(* Properties of main (SpecMain) *)

\* The positions of events with this name
EventsNamed(name) == {i \in DOMAIN events : events[i].name = name}

\* A campaign pass has ended by throwing
PassFailed == EventsNamed("passThrew") \cup EventsNamed("executionFailed") # {}

\* C31: with no private key configured, once the campaign pass has failed the
\* process has exited with a non-zero code, in run-once mode and in scheduled
\* mode alike: it is not alive and no further cycle is armed.
C31_NoKeysIsFatal ==
  (privateKeys = 0 /\ PassFailed) =>
    /\ ~alive
    /\ exitCode # <<>> /\ exitCode # <<0>>
    /\ timeouts = 0

\* C32: with the help flag no campaign pass is executed and no scheduler is
\* created, whatever the other flag; in run-once mode at most one pass is
\* executed, exactly one once main has ended, and no scheduler is created;
\* with neither flag every pass is started by a timer of the scheduler, the
\* first timer is armed with delay 0 and every later one with the configured
\* interval, each after the pass before it has settled.
C32_ModesOfMain ==
  LET started == EventsNamed("passStarted") \cup EventsNamed("executionStarted")
      settled == EventsNamed("executionCompleted") \cup EventsNamed("executionFailed")
  IN /\ argHelp => started = {} /\ EventsNamed("schedulerCreated") = {}
     /\ (~argHelp /\ argRunOnce) =>
          /\ Cardinality(EventsNamed("passStarted")) <= 1
          /\ EventsNamed("executionStarted") = {}
          /\ EventsNamed("schedulerCreated") = {} /\ armed = <<>>
          /\ mainPc \in {"returned", "exited"} =>
               Cardinality(EventsNamed("passStarted")) = 1
     /\ (~argHelp /\ ~argRunOnce) =>
          /\ EventsNamed("passStarted") = {}
          /\ \A k \in DOMAIN armed :
               armed[k] = IF k = 1 THEN 0 ELSE intervalHours * 3600000
          /\ Cardinality(EventsNamed("executionStarted")) <= Len(armed)
          /\ Len(armed) <= 1 + Cardinality(settled)
          /\ EventsNamed("start") # {} => Len(armed) >= 1

\* Scheduled mode: a second pass has started, on the timer armed with the interval
C32_Witness ==
  /\ ~argHelp /\ ~argRunOnce
  /\ Cardinality(EventsNamed("executionStarted")) = 2
  /\ Len(armed) = 2

-----------------------------------------------------------------------------
(* The delays of withRetry (SpecRetry) *)

\* The number of failed attempts so far
FailedAttempts == Cardinality({i \in DOMAIN rOutcomes : rOutcomes[i] = "fail"})

\* C33: in withRetry the sleep after the failed attempt with 0-based index a
\* is retryDelay * 2^a with exponential backoff and retryDelay without it;
\* every failed attempt but the last one allowed (a = maxRetries - 1) is
\* followed by one sleep and the last by none; the delays never decrease.
C33_WithRetryDelays ==
  rImpl = "withRetry" =>
    /\ \A k \in DOMAIN rSleeps :
         rSleeps[k] = IF rBackoff THEN rRetryDelay * 2^(k - 1) ELSE rRetryDelay
    /\ Len(rSleeps) = IF rPc = "thrown" /\ rOutcomes # <<>>
                        THEN FailedAttempts - 1 ELSE FailedAttempts
    /\ (rPc = "thrown" /\ rOutcomes # <<>>) => FailedAttempts = rMaxRetries
    /\ \A j, k \in DOMAIN rSleeps : j <= k => rSleeps[j] <= rSleeps[k]

\* withRetry with backoff has failed on every attempt, three at least, and thrown
C33_Witness ==
  /\ rImpl = "withRetry" /\ rBackoff
  /\ rPc = "thrown"
  /\ Len(rSleeps) >= 2
  /\ rSleeps[Len(rSleeps)] = rRetryDelay * 4

-----------------------------------------------------------------------------
(* The pacing of processAllTasks (SpecTasks) *)

\* The positions of the log with this operation
LogPositions(op) == {p \in DOMAIN log : log[p].op = op}

\* The last position before p with one of these operations, 0 if there is none
LastBefore(p, ops) ==
  LET earlier == {q \in 1..(p - 1) : log[q].op \in ops} IN
    IF earlier = {} THEN 0 ELSE CHOOSE q \in earlier : \A r \in earlier : r <= q

\* C34: every verification request of processAllTasks, the first included,
\* is issued after a 2000 ms delay of its own: since that delay no other
\* verification was issued or finished; and every delay but the first begins
\* after the verification of the task before it has finished (verifyTask has
\* resolved or rejected).
C34_PacingBeforeEachVerification ==
  /\ \A p \in LogPositions("VerifyActivity") :
       LET q == LastBefore(p, {"sleep2000", "VerifyActivity", "verifyTask"})
       IN q # 0 /\ log[q].op = "sleep2000"
  /\ \A p \in LogPositions("sleep2000") :
       LET q == LastBefore(p, {"sleep2000", "VerifyActivity", "verifyTask"})
       IN q # 0 => log[q].op = "verifyTask" /\ log[q].out \in {"resolved", "rejected"}

\* Two tasks have been verified, the first having failed on the network
C34_Witness ==
  /\ Cardinality(LogPositions("VerifyActivity")) >= 2
  /\ Cardinality(LogPositions("sleep2000")) >= 2
  /\ \E p \in LogPositions("verifyTask") : log[p].out = "rejected"

-----------------------------------------------------------------------------
(* Executions of the scheduler's processor (SpecScheduler) *)

-----------------------------------------------------------------------------
(* The schedule goes on after a failed pass (SpecSchedules) *)

\* The passes of the schedule (not those of runOnce) that have settled
SettledPasses ==
  {i \in DOMAIN events : /\ events[i].name \in {"executionCompleted", "executionFailed"}
                         /\ events[i].by \in {"timer", "runLoop"}}

\* C36: while a scheduler has been started and not stopped, after every pass
\* of the schedule, completed or failed, exactly one next pass is armed, with
\* the interval as its delay, and no pass is armed while one is in progress:
\* at every moment exactly one pass is either armed or in progress, and the
\* timeouts armed with the interval are as many as the passes that settled.
C36_ScheduleSurvivesFailure ==
  (EventsNamed("start") # {} /\ EventsNamed("stop") = {}) =>
    /\ timeouts + inFlight.timer = 1
    /\ Cardinality({k \in DOMAIN armed : armed[k] # 0}) = Cardinality(SettledPasses)
    /\ \A k \in DOMAIN armed : armed[k] \in {0, intervalHours * 3600000}
    /\ \A k \in DOMAIN armed : armed[k] = 0 => k = 1 /\ mainPc # "bot"

\* A pass has failed and the next pass has since been started by its timer
C36_Witness ==
  /\ EventsNamed("stop") = {}
  /\ \E i \in EventsNamed("executionFailed"), j \in EventsNamed("executionStarted") :
       /\ i < j
       /\ events[i].by = "timer" /\ events[j].by = "timer"

-----------------------------------------------------------------------------
(* Termination of a pass (FairSpecPass) *)

\* C37: for every number of wallets, every catalog and every pattern of
\* failed attempts, rejected requests and malformed responses, as long as
\* every attempt eventually completes, processAllWallets eventually returns.
C37_PassEventuallyReturns == <>(pc = "done")

\* The pass has returned; one wallet failed after withRetry gave up on a
\* request, and a later request had failed attempts before it succeeded
C37_Witness ==
  /\ pc = "done"
  /\ wCount >= 2
  /\ \E i \in DOMAIN results : results[i].success = <<FALSE>>
  /\ \E j \in DOMAIN rOutcomes : rOutcomes[j] = "fail"

-----------------------------------------------------------------------------
(* One verification per task, one catalog query per wallet run (SpecPass) *)

\* processAllTasks has returned for wallet w
TasksProcessed(w) == w < wIdx \/ pc = "done" \/ (w = wIdx /\ pc = "tasks_done")

\* The positions of the catalog queries of wallet w
CatalogQueries(w) == {j \in DOMAIN log : log[j].w = w /\ log[j].op = "CampaignActivitiesPanel"}

\* The verification requests of wallet w for the task with this id
VerificationsOf(w, id) ==
  {p \in DOMAIN log : log[p].w = w /\ log[p].op = "VerifyActivity" /\ log[p].arg = id}

\* C38: in a wallet's run of processAllTasks the catalog query is issued at
\* most once, and exactly once when the run is over, however many tasks had
\* a property looked up; no task is submitted for verification twice; when
\* the run is over every eligible task of a type that is not skipped has
\* been submitted exactly once and nothing else has; and withRetry invokes
\* the verification request at most maxRetries times.
C38_OneVerificationOneQuery ==
  /\ \A w \in 1..wCount :
       /\ Cardinality(CatalogQueries(w)) <= 1
       /\ (TasksProcessed(w) /\ authenticated[w]) => Cardinality(CatalogQueries(w)) = 1
       /\ \A j \in CatalogQueries(w) :
            LET submit == IF log[j].out = "ok" THEN ViewOf(EligibleOf(j), FALSE) ELSE <<>>
                ids == {submit[i].id : i \in DOMAIN submit}
            IN /\ \A p \in DOMAIN log :
                    (log[p].w = w /\ log[p].op = "VerifyActivity") => log[p].arg \in ids
               /\ \A id \in ids : Cardinality(VerificationsOf(w, id)) <= 1
               /\ TasksProcessed(w) =>
                    \A id \in ids : Cardinality(VerificationsOf(w, id)) = 1
  /\ pc = "tasks_loop" => Len(rOutcomes) <= rMaxRetries

\* A wallet's run is over: two tasks were verified once each, each after a
\* lookup of its property in the catalog, and a task of a skipped type was not
C38_Witness ==
  /\ TasksProcessed(1) /\ authenticated[1]
  /\ \E j \in CatalogQueries(1) :
       /\ log[j].out = "ok"
       /\ Len(ViewOf(EligibleOf(j), FALSE)) = 2
       /\ Len(EligibleOf(j)) = 3

-----------------------------------------------------------------------------
(* The two logins compared (SpecLoginPair) *)

\* C39: on every combination of answers the login of part_004 and the login
\* of index.js both resolve or both reject, and send the same requests
C39_LoginsAgree ==
  eLogins # <<>> =>
    /\ eLogins[1].checked.resolved = eLogins[1].unchecked.resolved
    /\ eLogins[1].checked.requests = eLogins[1].unchecked.requests

-----------------------------------------------------------------------------
(* The argument of maskSensitiveData (SpecMask) *)

\* C40: after maskSensitiveData the object passed in, nested objects
\* included, has the value it had before the call
C40_ArgumentUnchanged == mPc = "called" => mArgument = mInfo

=============================================================================
